---- MODULE Spec2Model ----
(***************************************************************************)
(* Model of factor_crowding.analysis.drawdowns.DrawdownAnalyzer and of      *)
(* factor_crowding.features.crowding.CrowdingIndexBuilder.                 *)
(*                                                                         *)
(* Floating point values are modelled as exact rationals <<n, d>> in       *)
(* lowest terms with d > 0, extended with the three IEEE specials          *)
(* NaN = <<0,0>>, +inf = <<1,0>>, -inf = <<-1,0>>.  A pandas Series is a   *)
(* sequence of such values; its index is the position 1..Len.              *)
(***************************************************************************)
EXTENDS Integers, Sequences, FiniteSets, TLC

(* ------------------------------------------------------------------ *)
(* Bounds of the model                                                 *)
(* ------------------------------------------------------------------ *)
MaxLen == 4

(* ------------------------------------------------------------------ *)
(* Float arithmetic                                                    *)
(* ------------------------------------------------------------------ *)
AbsInt(n) == IF n < 0 THEN -n ELSE n

Sign(n) == IF n < 0 THEN -1 ELSE IF n > 0 THEN 1 ELSE 0

RECURSIVE GCD(_, _)
GCD(a, b) == IF b = 0 THEN a ELSE GCD(b, a % b)

Rat(n, d) ==
    LET g == GCD(AbsInt(n), AbsInt(d))
        s == IF d < 0 THEN -1 ELSE 1
    IN  << (s * n) \div g, (s * d) \div g >>

NaN == << 0, 0 >>

PosInf == << 1, 0 >>

NegInf == << -1, 0 >>

IsNaN(x) == x = NaN

IsFinite(x) == x[2] # 0

Zero == Rat(0, 1)

One == Rat(1, 1)

Hundred == Rat(100, 1)

Neg(a) == << -a[1], a[2] >>

AbsF(a) == << AbsInt(a[1]), a[2] >>

Add(a, b) ==
    IF IsNaN(a) \/ IsNaN(b) THEN NaN
    ELSE IF IsFinite(a) /\ IsFinite(b) THEN Rat(a[1] * b[2] + b[1] * a[2], a[2] * b[2])
    ELSE IF IsFinite(b) THEN a
    ELSE IF IsFinite(a) THEN b
    ELSE IF a = b THEN a ELSE NaN

Sub(a, b) == Add(a, Neg(b))

Mul(a, b) ==
    IF IsNaN(a) \/ IsNaN(b) THEN NaN
    ELSE IF IsFinite(a) /\ IsFinite(b) THEN Rat(a[1] * b[1], a[2] * b[2])
    ELSE << Sign(a[1]) * Sign(b[1]), 0 >>

Div(a, b) ==
    IF IsNaN(a) \/ IsNaN(b) THEN NaN
    ELSE IF ~IsFinite(b) THEN (IF IsFinite(a) THEN Zero ELSE NaN)
    ELSE IF ~IsFinite(a) THEN (IF b[1] < 0 THEN Neg(a) ELSE a)
    ELSE IF b[1] = 0 THEN << Sign(a[1]), 0 >>
    ELSE Rat(a[1] * b[2], a[2] * b[1])

Lt(a, b) ==
    IF IsNaN(a) \/ IsNaN(b) THEN FALSE
    ELSE IF a = b THEN FALSE
    ELSE IF a = NegInf \/ b = PosInf THEN TRUE
    ELSE IF a = PosInf \/ b = NegInf THEN FALSE
    ELSE a[1] * b[2] < b[1] * a[2]

Le(a, b) == ~IsNaN(a) /\ ~IsNaN(b) /\ (a = b \/ Lt(a, b))

Ge(a, b) == Le(b, a)

(* ------------------------------------------------------------------ *)
(* pandas Series reductions used by the analyzer                       *)
(* ------------------------------------------------------------------ *)
Valid(s, lo, hi) == { j \in lo..hi : ~IsNaN(s[j]) }

(* the Series holding f[lo], ..., f[hi], as a concrete tuple *)
RECURSIVE SeriesOver(_, _, _)
SeriesOver(f, lo, hi) ==
    IF hi < lo THEN << >>
    ELSE IF lo = hi THEN << f[lo] >>
    ELSE LET mid == (lo + hi) \div 2
         IN  SeriesOver(f, lo, mid) \o SeriesOver(f, mid + 1, hi)

(* the Series holding f[1], ..., f[n], as a concrete tuple *)
Series(f, n) == SeriesOver(f, 1, n)

(* product of the non-missing s[j], j in lo..hi *)
RECURSIVE ProdRange(_, _, _)
ProdRange(s, lo, hi) ==
    IF hi < lo THEN One
    ELSE IF IsNaN(s[hi]) THEN ProdRange(s, lo, hi - 1)
    ELSE Mul(ProdRange(s, lo, hi - 1), s[hi])

(* Series.cumprod(): skipna, a missing entry stays missing *)
cumprod(s) ==
    Series([t \in 1..Len(s) |-> IF IsNaN(s[t]) THEN NaN ELSE ProdRange(s, 1, t)], Len(s))

(* position of the largest / smallest non-missing value, first occurrence *)
ArgMax(s, lo, hi) ==
    CHOOSE j \in Valid(s, lo, hi) :
        /\ \A k \in Valid(s, lo, hi) : Le(s[k], s[j])
        /\ \A k \in Valid(s, lo, hi) : k < j => Lt(s[k], s[j])

(* variant: of equal smallest values the last one is taken *)
ArgMin_last(s, lo, hi) ==
    CHOOSE j \in Valid(s, lo, hi) :
        /\ \A k \in Valid(s, lo, hi) : Le(s[j], s[k])
        /\ \A k \in Valid(s, lo, hi) : k > j => Lt(s[j], s[k])

ArgMin(s, lo, hi) ==
    CHOOSE j \in Valid(s, lo, hi) :
        /\ \A k \in Valid(s, lo, hi) : Le(s[j], s[k])
        /\ \A k \in Valid(s, lo, hi) : k < j => Lt(s[j], s[k])

(* Series.expanding().max(), min_periods = 1 *)
expanding_max(s) ==
    Series([t \in 1..Len(s) |->
               IF Valid(s, 1, t) = {} THEN NaN ELSE s[ArgMax(s, 1, t)]], Len(s))

(* variant: the minimum of nothing is taken to be 0 *)
series_min_or_zero(s) ==
    IF Valid(s, 1, Len(s)) = {} THEN Zero ELSE s[ArgMin(s, 1, Len(s))]

(* Series.min(): skipna, NaN when nothing is left *)
series_min(s) ==
    IF Valid(s, 1, Len(s)) = {} THEN NaN ELSE s[ArgMin(s, 1, Len(s))]

(* k-th smallest (k in 1..Len) of a sequence of non-missing values, by
   partitioning around the middle element *)
RECURSIVE select_kth(_, _)
select_kth(values, k) ==
    LET pivot   == values[(Len(values) + 1) \div 2]
        less    == SelectSeq(values, LAMBDA x : Lt(x, pivot))
        notmore == Len(SelectSeq(values, LAMBDA x : Le(x, pivot)))
    IN  IF k <= Len(less) THEN select_kth(less, k)
        ELSE IF k <= notmore THEN pivot
        ELSE select_kth(SelectSeq(values, LAMBDA x : Lt(pivot, x)), k - notmore)

(* k-th smallest (k in 1..n) of the non-missing values of s[1..hi] *)
KthSmallest(s, hi, k) ==
    select_kth(SelectSeq(SubSeq(s, 1, hi), LAMBDA x : ~IsNaN(x)), k)

(* variant: the quantile is the order statistic just below the position *)
quantile_lower(s, hi, q) ==
    LET n    == Cardinality(Valid(s, 1, hi))
        pos  == Mul(q, Rat(n - 1, 1))
        lo   == pos[1] \div pos[2]
    IN  IF n = 0 THEN NaN
        ELSE KthSmallest(s, hi, lo + 1)

(* linear-interpolation quantile of the non-missing values of s[1..hi] *)
quantile(s, hi, q) ==
    LET n    == Cardinality(Valid(s, 1, hi))
        pos  == Mul(q, Rat(n - 1, 1))
        lo   == pos[1] \div pos[2]
        frac == Sub(pos, Rat(lo, 1))
        vlo  == KthSmallest(s, hi, lo + 1)
        vhi  == KthSmallest(s, hi, IF lo + 2 <= n THEN lo + 2 ELSE n)
    IN  IF n = 0 THEN NaN
        ELSE Add(vlo, Mul(frac, Sub(vhi, vlo)))

(* ------------------------------------------------------------------ *)
(* Exact arithmetic for long series of whole-percent returns           *)
(* ------------------------------------------------------------------ *)
(* A natural number of any size is held as its base-10000 limbs, least
   significant first, without a leading zero limb. *)
LimbBase == 10000

RECURSIVE BigOf(_)
BigOf(n) == IF n = 0 THEN << >> ELSE << n % LimbBase >> \o BigOf(n \div LimbBase)

Limb(a, k) == IF k <= Len(a) THEN a[k] ELSE 0

(* highest position in lo..hi holding a non-zero limb, 0 when none *)
RECURSIVE TopLimb(_, _, _)
TopLimb(a, lo, hi) ==
    IF hi < lo THEN 0
    ELSE IF lo = hi THEN (IF a[lo] # 0 THEN lo ELSE 0)
    ELSE LET mid  == (lo + hi) \div 2
             high == TopLimb(a, mid + 1, hi)
         IN  IF high # 0 THEN high ELSE TopLimb(a, lo, mid)

BigNorm(a) == SubSeq(a, 1, TopLimb(a, 1, Len(a)))

(* a * LimbBase^k *)
BigShift(a, k) == IF a = << >> THEN << >> ELSE [j \in 1..k |-> 0] \o a

(* limbs lo..hi of a * m + carry, and the carry out of them *)
RECURSIVE MulSmallRange(_, _, _, _, _)
MulSmallRange(a, m, lo, hi, carry) ==
    IF lo = hi
    THEN LET v == a[lo] * m + carry
         IN  [limbs |-> << v % LimbBase >>, carry |-> v \div LimbBase]
    ELSE LET mid  == (lo + hi) \div 2
             low  == MulSmallRange(a, m, lo, mid, carry)
             high == MulSmallRange(a, m, mid + 1, hi, low.carry)
         IN  [limbs |-> low.limbs \o high.limbs, carry |-> high.carry]

(* a * m for 0 <= m <= 2 * LimbBase *)
BigMulSmall(a, m) ==
    IF a = << >> THEN << >>
    ELSE LET product == MulSmallRange(a, m, 1, Len(a), 0)
         IN  BigNorm(product.limbs \o BigOf(product.carry))

RECURSIVE AddRange(_, _, _, _, _)
AddRange(a, b, lo, hi, carry) ==
    IF lo = hi
    THEN LET v == Limb(a, lo) + Limb(b, lo) + carry
         IN  [limbs |-> << v % LimbBase >>, carry |-> v \div LimbBase]
    ELSE LET mid  == (lo + hi) \div 2
             low  == AddRange(a, b, lo, mid, carry)
             high == AddRange(a, b, mid + 1, hi, low.carry)
         IN  [limbs |-> low.limbs \o high.limbs, carry |-> high.carry]

BigAdd(a, b) ==
    LET n == IF Len(a) < Len(b) THEN Len(b) ELSE Len(a)
    IN  IF n = 0 THEN << >>
        ELSE LET sum == AddRange(a, b, 1, n, 0)
             IN  sum.limbs \o BigOf(sum.carry)

RECURSIVE SubRange(_, _, _, _, _)
SubRange(a, b, lo, hi, borrow) ==
    IF lo = hi
    THEN LET v == a[lo] - Limb(b, lo) - borrow
         IN  [limbs  |-> << IF v < 0 THEN v + LimbBase ELSE v >>,
              borrow |-> IF v < 0 THEN 1 ELSE 0]
    ELSE LET mid  == (lo + hi) \div 2
             low  == SubRange(a, b, lo, mid, borrow)
             high == SubRange(a, b, mid + 1, hi, low.borrow)
         IN  [limbs |-> low.limbs \o high.limbs, borrow |-> high.borrow]

(* a - b for a >= b *)
BigSub(a, b) ==
    IF a = << >> THEN << >> ELSE BigNorm(SubRange(a, b, 1, Len(a), 0).limbs)

(* -1, 0, 1 as limbs lo..hi of a are below, equal to, above those of b *)
RECURSIVE CompareRange(_, _, _, _)
CompareRange(a, b, lo, hi) ==
    IF hi < lo THEN 0
    ELSE IF lo = hi THEN (IF a[lo] < b[lo] THEN -1 ELSE IF a[lo] > b[lo] THEN 1 ELSE 0)
    ELSE LET mid  == (lo + hi) \div 2
             high == CompareRange(a, b, mid + 1, hi)
         IN  IF high # 0 THEN high ELSE CompareRange(a, b, lo, mid)

BigLt(a, b) ==
    IF Len(a) # Len(b) THEN Len(a) < Len(b) ELSE CompareRange(a, b, 1, Len(a)) < 0

BigLe(a, b) == ~BigLt(b, a)

(* a * (b[lo] + b[lo + 1] * LimbBase + ... ) *)
RECURSIVE MulRange(_, _, _, _)
MulRange(a, b, lo, hi) ==
    IF lo = hi THEN BigMulSmall(a, b[lo])
    ELSE LET mid == (lo + hi) \div 2
         IN  BigAdd(MulRange(a, b, lo, mid),
                    BigShift(MulRange(a, b, mid + 1, hi), mid + 1 - lo))

BigMul(a, b) == IF b = << >> THEN << >> ELSE BigNorm(MulRange(a, b, 1, Len(b)))

(* ------------------------------------------------------------------ *)
(* Input domains                                                       *)
(* ------------------------------------------------------------------ *)
ReturnValues == { Rat(-2, 1), Rat(-1, 1), Rat(-1, 2), Rat(1, 1) }

AllSeries == UNION { [1..n -> ReturnValues] : n \in 0..MaxLen }

Percentiles == { 1, 100 }

Thresholds == { 5, 75 }

Windows == { 1, 2 }

Methods == { "historical", "rolling", "expanding" }

(* ------------------------------------------------------------------ *)
(* DrawdownAnalyzer: pure methods                                      *)
(* ------------------------------------------------------------------ *)
compute_cumulative_returns(r) ==
    cumprod(Series([t \in 1..Len(r) |-> Add(One, r[t])], Len(r)))

(* variant: the series itself is taken for its running maximum *)
compute_running_max_identity(cumulative_returns) == cumulative_returns

(* variant: the expanding window leaves out the current point *)
compute_running_max_exclusive(cumulative_returns) ==
    Series([t \in 1..Len(cumulative_returns) |->
               IF Valid(cumulative_returns, 1, t - 1) = {} THEN NaN
               ELSE cumulative_returns[ArgMax(cumulative_returns, 1, t - 1)]],
           Len(cumulative_returns))

compute_running_max(cumulative_returns) == expanding_max(cumulative_returns)

(* variant: peak minus wealth, the drawdown with its sign flipped *)
compute_drawdown_flipped(r) ==
    LET cum_returns == compute_cumulative_returns(r)
        running_max == compute_running_max(cum_returns)
    IN  Series([t \in 1..Len(r) |->
                   Div(Sub(running_max[t], cum_returns[t]), running_max[t])], Len(r))

compute_drawdown(r) ==
    LET cum_returns == compute_cumulative_returns(r)
        running_max == compute_running_max(cum_returns)
    IN  Series([t \in 1..Len(r) |->
                   Div(Sub(cum_returns[t], running_max[t]), running_max[t])], Len(r))

(* variant: the largest instead of the smallest drawdown *)
compute_max_drawdown_max(r) ==
    LET drawdown == compute_drawdown(r)
    IN  IF Valid(drawdown, 1, Len(r)) = {} THEN NaN
        ELSE drawdown[ArgMax(drawdown, 1, Len(r))]

compute_max_drawdown(r) == series_min(compute_drawdown(r))

(* variant: windows cut short by the start of the series are compounded too *)
rolling_compound_partial(r, w) ==
    LET growth == Series([k \in 1..Len(r) |-> Add(One, r[k])], Len(r))
    IN  Series([t \in 1..Len(r) |->
                   Sub(ProdRange(growth, IF t < w THEN 1 ELSE t - w + 1, t), One)], Len(r))

(* (1 + returns).rolling(window).apply(prod - 1): full windows only *)
rolling_compound(r, w) ==
    LET growth == Series([k \in 1..Len(r) |-> Add(One, r[k])], Len(r))
    IN  Series([t \in 1..Len(r) |->
                   IF t < w \/ Cardinality(Valid(growth, t - w + 1, t)) < w THEN NaN
                   ELSE Sub(ProdRange(growth, t - w + 1, t), One)], Len(r))

period_returns(r, w) == IF w = 1 THEN r ELSE rolling_compound(r, w)

(* variant: flags returns at or below the threshold *)
historical_crashes_inclusive(r, w, pct) ==
    LET pr        == period_returns(r, w)
        threshold == quantile(pr, Len(pr), Div(Rat(pct, 1), Hundred))
    IN  Series([t \in 1..Len(r) |-> Le(pr[t], threshold)], Len(r))

historical_crashes(r, w, pct) ==
    LET pr        == period_returns(r, w)
        threshold == quantile(pr, Len(pr), Div(Rat(pct, 1), Hundred))
    IN  Series([t \in 1..Len(r) |-> Lt(pr[t], threshold)], Len(r))

(* variant: the threshold is the quantile of the whole series *)
rolling_crashes_whole_sample(r, w, pct) ==
    LET pr        == period_returns(r, w)
        threshold == quantile(pr, Len(pr), Div(Rat(pct, 1), Hundred))
    IN  Series([t \in 1..Len(r) |-> Lt(pr[t], threshold)], Len(r))

rolling_crashes(r, w, pct) ==
    LET pr == period_returns(r, w)
    IN  Series([t \in 1..Len(r) |->
                   Lt(pr[t], quantile(pr, t, Div(Rat(pct, 1), Hundred)))], Len(r))

NoError == << >>

ValueError(m) == << "ValueError", "Unknown method: ", m >>

(* variant: an unknown method is treated as 'historical' *)
identify_crash_events_fallback(r, w, m, pct) ==
    IF m = "rolling" THEN [ret |-> rolling_crashes(r, w, pct), exc |-> NoError]
    ELSE [ret |-> historical_crashes(r, w, pct), exc |-> NoError]

(* ret: the flag series returned; exc: the exception raised instead *)
identify_crash_events(r, w, m, pct) ==
    IF m = "historical" THEN [ret |-> historical_crashes(r, w, pct), exc |-> NoError]
    ELSE IF m = "rolling" THEN [ret |-> rolling_crashes(r, w, pct), exc |-> NoError]
    ELSE [ret |-> << >>, exc |-> ValueError(m)]

(* variant: an index with zero drawdown counts as in drawdown *)
in_drawdown_inclusive(drawdown) ==
    Series([t \in 1..Len(drawdown) |-> Le(drawdown[t], Zero)], Len(drawdown))

in_drawdown(drawdown) ==
    Series([t \in 1..Len(drawdown) |-> Lt(drawdown[t], Zero)], Len(drawdown))

(* variant: the depth is read at the end of the episode *)
Episode_depth_at_end(dd, cum, s, e) ==
    LET trough_idx == ArgMin(dd, s, e)
        depth      == dd[e]
    IN  [ start_date   |-> s,
          trough_date  |-> trough_idx,
          end_date     |-> e,
          depth_pct    |-> Mul(depth, Hundred),
          duration_days |-> e - s + 1,
          start_value  |-> cum[s],
          trough_value |-> cum[trough_idx] ]

(* variant: the trough position is not offset by the episode start *)
Episode_trough_unshifted(dd, cum, s, e) ==
    LET trough_idx == ArgMin(dd, s, e) - s + 1
        depth      == dd[trough_idx]
    IN  [ start_date   |-> s,
          trough_date  |-> trough_idx,
          end_date     |-> e,
          depth_pct    |-> Mul(depth, Hundred),
          duration_days |-> e - s + 1,
          start_value  |-> cum[s],
          trough_value |-> cum[trough_idx] ]

(* variant: the duration leaves out the first period of the episode *)
Episode_duration_exclusive(dd, cum, s, e) ==
    LET trough_idx == ArgMin(dd, s, e)
        depth      == dd[trough_idx]
    IN  [ start_date   |-> s,
          trough_date  |-> trough_idx,
          end_date     |-> e,
          depth_pct    |-> Mul(depth, Hundred),
          duration_days |-> e - s,
          start_value  |-> cum[s],
          trough_value |-> cum[trough_idx] ]

(* one row of the episode table *)
Episode(dd, cum, s, e) ==
    LET trough_idx == ArgMin(dd, s, e)
        depth      == dd[trough_idx]
    IN  [ start_date   |-> s,
          trough_date  |-> trough_idx,
          end_date     |-> e,
          depth_pct    |-> Mul(depth, Hundred),
          duration_days |-> e - s + 1,
          start_value  |-> cum[s],
          trough_value |-> cum[trough_idx] ]

ExceedsThreshold(dd, s, e, thr) ==
    Ge(AbsF(dd[ArgMin(dd, s, e)]), Div(Rat(thr, 1), Hundred))

(* ------------------------------------------------------------------ *)
(* DrawdownAnalyzer on long series of whole-percent returns            *)
(* ------------------------------------------------------------------ *)
(* The wealth of up to 100 periods of whole-percent returns above -100% has
   at most 200 decimal places: a wealth v is held as the natural number
   v * 100^100, and a drawdown d <= 0 as the pair (drop, peak) with
   d = -drop / peak. *)
ExactOne == BigShift(<< 1 >>, 50)

(* a whole-percent return, in percent *)
percent(r) == (r[1] * 100) \div r[2]

(* last * (1 + r): LimbBase is 100 * 100 *)
grow(last, r) ==
    LET product == BigMulSmall(last, (100 + percent(r)) * 100)
    IN  IF product = << >> THEN << >> ELSE Tail(product)

(* the wealth after each of the periods lo..hi, from the wealth start *)
RECURSIVE cumprod_exact(_, _, _, _)
cumprod_exact(r, start, lo, hi) ==
    IF hi < lo THEN << >>
    ELSE IF lo = hi THEN << grow(start, r[lo]) >>
    ELSE LET mid == (lo + hi) \div 2
             low == cumprod_exact(r, start, lo, mid)
         IN  low \o cumprod_exact(r, low[Len(low)], mid + 1, hi)

compute_cumulative_returns_exact(r) == cumprod_exact(r, ExactOne, 1, Len(r))

(* the running maximum over the periods lo..hi, from the maximum start *)
RECURSIVE expanding_max_exact(_, _, _, _)
expanding_max_exact(c, start, lo, hi) ==
    IF hi < lo THEN << >>
    ELSE IF lo = hi THEN << IF BigLt(start, c[lo]) THEN c[lo] ELSE start >>
    ELSE LET mid == (lo + hi) \div 2
             low == expanding_max_exact(c, start, lo, mid)
         IN  low \o expanding_max_exact(c, low[Len(low)], mid + 1, hi)

(* variant: the series itself is taken for its running maximum *)
compute_running_max_exact_identity(cumulative_returns) == cumulative_returns

compute_running_max_exact(cumulative_returns) ==
    expanding_max_exact(cumulative_returns, << >>, 1, Len(cumulative_returns))

(* the drawdown at t is -drop / peak *)
compute_drawdown_exact(r) ==
    LET cum_returns == compute_cumulative_returns_exact(r)
        running_max == compute_running_max_exact(cum_returns)
    IN  SeriesOver([t \in 1..Len(r) |->
                       [drop |-> BigSub(running_max[t], cum_returns[t]),
                        peak |-> running_max[t]]], 1, Len(r))

(* drawdown x < drawdown y *)
Deeper(x, y) ==
    IF x.peak = y.peak THEN BigLt(y.drop, x.drop)
    ELSE BigLt(BigMul(y.drop, x.peak), BigMul(x.drop, y.peak))

(* position of the smallest drawdown of dd[s..e], first occurrence *)
RECURSIVE argmin_exact(_, _, _)
argmin_exact(dd, s, e) ==
    IF e <= s THEN s
    ELSE LET mid  == (s + e) \div 2
             low  == argmin_exact(dd, s, mid)
             high == argmin_exact(dd, mid + 1, e)
         IN  IF Deeper(dd[high], dd[low]) THEN high ELSE low

compute_max_drawdown_exact(r) ==
    LET drawdown == compute_drawdown_exact(r)
    IN  drawdown[argmin_exact(drawdown, 1, Len(r))]

in_drawdown_exact(drawdown) ==
    SeriesOver([t \in 1..Len(drawdown) |-> drawdown[t].drop # << >>], 1, Len(drawdown))

Episode_exact(dd, cum, s, e) ==
    LET trough_idx == argmin_exact(dd, s, e)
        depth      == dd[trough_idx]
    IN  [ start_date   |-> s,
          trough_date  |-> trough_idx,
          end_date     |-> e,
          depth_pct    |-> [drop |-> BigMulSmall(depth.drop, 100), peak |-> depth.peak],
          duration_days |-> e - s + 1,
          start_value  |-> cum[s],
          trough_value |-> cum[trough_idx] ]

(* abs(depth) >= threshold / 100 for a threshold n / d *)
ExceedsThreshold_exact(dd, s, e, thr) ==
    LET depth == dd[argmin_exact(dd, s, e)]
    IN  BigLe(BigMulSmall(depth.peak, thr[1]), BigMulSmall(depth.drop, 100 * thr[2]))

(* ------------------------------------------------------------------ *)
(* CrowdingIndexBuilder: series transforms                             *)
(* ------------------------------------------------------------------ *)
SeriesValues == { NaN, Rat(-100, 1), Rat(0, 1), Rat(1, 1), Rat(100, 1) }

SeriesInputs == UNION { [1..n -> SeriesValues] : n \in 0..MaxLen }

WinsorizeLower == { 1, 25 }

WinsorizeUpper == { 75, 99 }

ZscoreWindows == { 1, 2, 3, 6 }

IndexError == << "IndexError", "index out of bounds", "-" >>

(* Series.dropna().index: the positions holding a value, in order *)
RECURSIVE dropna_index(_, _)
dropna_index(s, n) ==
    IF n = 0 THEN << >>
    ELSE IF IsNaN(s[n]) THEN dropna_index(s, n - 1)
    ELSE Append(dropna_index(s, n - 1), n)

(* Series.dropna(): the values at those positions *)
dropna(s) ==
    LET idx == dropna_index(s, Len(s))
    IN  Series([k \in 1..Len(idx) |-> s[idx[k]]], Len(idx))

(* a.argsort(): positions of a in ascending order of value *)
argsort(a) ==
    LET rank(j) == Cardinality({ m \in 1..Len(a) :
                                   Lt(a[m], a[j]) \/ (a[m] = a[j] /\ m < j) }) + 1
    IN  Series([k \in 1..Len(a) |-> CHOOSE j \in 1..Len(a) : rank(j) = k], Len(a))

(* scipy.stats.mstats.winsorize(a, limits = (low, up)) on a 1-D array without
   missing values, limits given in percent.  lowidx and upidx are the 0-based
   indices of the scipy code; idx[-1] is the last element of a non-empty idx,
   any other index outside idx raises IndexError. *)
winsorize(a, low_pct, up_pct) ==
    LET n      == Len(a)
        idx    == argsort(a)
        lowidx == (low_pct * n) \div 100
        upidx  == n - ((up_pct * n) \div 100)
        lowbad == low_pct # 0 /\ lowidx >= n
        a1     == IF low_pct = 0 THEN a
                  ELSE Series([j \in 1..n |->
                                 IF \E k \in 1..lowidx : idx[k] = j
                                 THEN a[idx[lowidx + 1]] ELSE a[j]], n)
        upfrom == IF upidx = 0 THEN n ELSE upidx
        upbad  == n = 0
        a2     == Series([j \in 1..n |->
                            IF \E k \in (upidx + 1)..n : idx[k] = j
                            THEN a1[idx[upfrom]] ELSE a1[j]], n)
    IN  IF lowbad \/ upbad THEN [ret |-> << >>, exc |-> IndexError]
        ELSE [ret |-> a2, exc |-> NoError]

(* a.combine_first(b): a where a holds a value, else b; b is indexed by the
   positions bindex *)
combine_first(a, b, bindex) ==
    Series([t \in 1..Len(a) |->
               IF ~IsNaN(a[t]) THEN a[t]
               ELSE IF \E k \in 1..Len(bindex) : bindex[k] = t
               THEN b[CHOOSE k \in 1..Len(bindex) : bindex[k] = t]
               ELSE NaN], Len(a))

(* series.combine_first(winsorized), unless winsorizing has raised *)
combined(s, winsorized) ==
    IF winsorized.exc # NoError THEN [ret |-> << >>, exc |-> winsorized.exc]
    ELSE [ret |-> combine_first(s, winsorized.ret, dropna_index(s, Len(s))),
          exc |-> NoError]

winsorize_series(s, lower, upper) ==
    combined(s, winsorize(dropna(s), lower, 100 - upper))

(* positions of the rolling window that ends at t *)
Window(t, w) == (IF t - w + 1 < 1 THEN 1 ELSE t - w + 1)..t

RECURSIVE SumRange(_, _, _)
SumRange(s, lo, hi) ==
    IF hi < lo THEN Zero
    ELSE IF IsNaN(s[hi]) THEN SumRange(s, lo, hi - 1)
    ELSE Add(SumRange(s, lo, hi - 1), s[hi])

(* Series.rolling(window, min_periods).mean() *)
rolling_mean(s, w, min_periods) ==
    Series([t \in 1..Len(s) |->
               LET lo   == IF t - w + 1 < 1 THEN 1 ELSE t - w + 1
                   nobs == Cardinality(Valid(s, lo, t))
               IN  IF nobs >= min_periods /\ nobs > 0
                   THEN Div(SumRange(s, lo, t), Rat(nobs, 1))
                   ELSE NaN], Len(s))

(* the square of Series.rolling(window, min_periods).std(), ddof = 1 *)
rolling_var(s, w, min_periods) ==
    Series([t \in 1..Len(s) |->
               LET lo   == IF t - w + 1 < 1 THEN 1 ELSE t - w + 1
                   nobs == Cardinality(Valid(s, lo, t))
                   mean == Div(SumRange(s, lo, t), Rat(nobs, 1))
                   dev2 == Series([k \in 1..t |->
                                     IF k < lo \/ IsNaN(s[k]) THEN NaN
                                     ELSE Mul(Sub(s[k], mean), Sub(s[k], mean))], t)
               IN  IF nobs >= min_periods /\ nobs > 1
                   THEN Div(SumRange(dev2, lo, t), Rat(nobs - 1, 1))
                   ELSE NaN], Len(s))

(* x / sqrt(v): the quotient q is held as sign(q) * q * q, which is rational *)
DivRoot(x, v) ==
    IF IsNaN(x) \/ IsNaN(v) THEN NaN
    ELSE IF v = Zero THEN << Sign(x[1]), 0 >>
    ELSE Mul(Rat(Sign(x[1]), 1), Div(Mul(x, x), v))

(* (series - rolling_mean) / rolling_std, the standard deviation held as its
   square var *)
standardized(s, mean, var) ==
    Series([t \in 1..Len(s) |-> DivRoot(Sub(s[t], mean[t]), var[t])], Len(s))

(* rolling_std.replace(0, value), on the squares *)
replace_zero(var, value) ==
    Series([t \in 1..Len(var) |-> IF var[t] = Zero THEN value ELSE var[t]], Len(var))

(* variant: a zero standard deviation is replaced by 1 *)
compute_zscore_unit_std(s, w) ==
    standardized(s, rolling_mean(s, w, w \div 2),
                 replace_zero(rolling_var(s, w, w \div 2), One))

(* variant: one observation is enough for the rolling mean and deviation *)
compute_zscore_min_one(s, w) ==
    standardized(s, rolling_mean(s, w, 1), replace_zero(rolling_var(s, w, 1), NaN))

(* compute_zscore(series, window) with min_periods = None, which makes it
   window // 2; the rolling standard deviation is held as its square, a
   z-score z as sign(z) * z * z *)
compute_zscore(s, w) ==
    standardized(s, rolling_mean(s, w, w \div 2),
                 replace_zero(rolling_var(s, w, w \div 2), NaN))

(* ------------------------------------------------------------------ *)
(* CrowdingIndexBuilder: component tables and the composite index      *)
(* ------------------------------------------------------------------ *)
(* A DataFrame is held as the length of its index, its column names and one
   series per column.  All tables of one call share one index. *)
MaxRows == 2

EmptyTable == [index |-> 0, columns |-> << >>, data |-> << >>]

CellValues == { NaN, Rat(-1, 1), Rat(2, 1) }

ColumnCounts == 0..2

TableCounts == 0..2

ColumnNames == << "comp_1", "comp_2" >>

Tables(n) ==
    UNION { { [index |-> n, columns |-> SubSeq(ColumnNames, 1, c), data |-> d] :
                d \in [1..c -> [1..n -> CellValues]] } : c \in ColumnCounts }

TableLists ==
    UNION { UNION { [1..k -> Tables(n)] : k \in TableCounts } : n \in 0..MaxRows }

(* a record the module's logger was handed *)
Info(message) == << "INFO", message >>

Warning(message) == << "WARNING", message >>

(* DataFrame.empty: some axis has length 0 *)
empty(df) == df.index = 0 \/ Len(df.columns) = 0

NoObjectsError == << "ValueError", "No objects to concatenate", "-" >>

RECURSIVE concat_from(_, _)
concat_from(dfs, k) ==
    IF k = 0 THEN [columns |-> << >>, data |-> << >>]
    ELSE LET rest == concat_from(dfs, k - 1)
         IN  [columns |-> rest.columns \o dfs[k].columns,
              data    |-> rest.data \o dfs[k].data]

(* variant: only the columns of the first table are kept *)
concat_first(dfs) ==
    IF Len(dfs) = 0
    THEN [ret |-> EmptyTable, exc |-> NoObjectsError]
    ELSE [ret |-> dfs[1], exc |-> NoError]

(* pd.concat(dfs, axis = 1) of tables over one index; nothing to concatenate
   is a ValueError *)
concat(dfs) ==
    IF Len(dfs) = 0
    THEN [ret |-> EmptyTable, exc |-> NoObjectsError]
    ELSE LET all == concat_from(dfs, Len(dfs))
         IN  [ret |-> [index |-> dfs[1].index, columns |-> all.columns,
                       data |-> all.data],
              exc |-> NoError]

(* DataFrame.mean(axis = 1, skipna = True) *)
mean_axis1(df) ==
    Series([t \in 1..df.index |->
               LET row  == Series([c \in 1..Len(df.data) |-> df.data[c][t]],
                                  Len(df.data))
                   nobs == Cardinality(Valid(row, 1, Len(row)))
               IN  IF nobs = 0 THEN NaN
                   ELSE Div(SumRange(row, 1, Len(row)), Rat(nobs, 1))], df.index)

(* the end of build_composite_index: the composite returned and the two
   records logged, unless winsorizing has raised *)
composite_returned(all_components, winsorized) ==
    IF winsorized.exc # NoError
    THEN [ret |-> << >>, exc |-> winsorized.exc,
          log |-> << Info("Building composite crowding index...") >>]
    ELSE [ret |-> winsorized.ret, exc |-> NoError,
          log |-> << Info("Building composite crowding index..."),
                     Info("Composite index created from "
                          \o ToString(Len(all_components.ret.columns))
                          \o " components") >>]

(* the row means, winsorized when asked *)
winsorized_when(composite, winsorize_final, lower, upper) ==
    IF winsorize_final THEN winsorize_series(composite, lower, upper)
    ELSE [ret |-> composite, exc |-> NoError]

(* build_composite_index from the concatenation on, unless that has raised *)
composite_of(all_components, winsorize_final, lower, upper) ==
    IF all_components.exc # NoError
    THEN [ret |-> << >>, exc |-> all_components.exc,
          log |-> << Info("Building composite crowding index...") >>]
    ELSE composite_returned(all_components,
                            winsorized_when(mean_axis1(all_components.ret),
                                            winsorize_final, lower, upper))

(* build_composite_index over component_dfs: the returned series, the
   exception raised and the records logged *)
build_composite_index(component_dfs, winsorize_final, lower, upper) ==
    composite_of(concat(component_dfs), winsorize_final, lower, upper)

(* ------------------------------------------------------------------ *)
(* CrowdingIndexBuilder: the three proxy sets                          *)
(* ------------------------------------------------------------------ *)
(* str.endswith *)
endswith(s, suffix) ==
    Len(s) >= Len(suffix) /\ SubSeq(s, Len(s) - Len(suffix) + 1, Len(s)) = suffix

(* str.replace(old, new): every occurrence, left to right *)
RECURSIVE replace(_, _, _)
replace(s, old, new) ==
    IF Len(s) < Len(old) THEN s
    ELSE IF SubSeq(s, 1, Len(old)) = old
    THEN new \o replace(SubSeq(s, Len(old) + 1, Len(s)), old, new)
    ELSE SubSeq(s, 1, 1) \o replace(SubSeq(s, 2, Len(s)), old, new)

(* name in df.columns *)
has_column(df, name) == \E c \in 1..Len(df.columns) : df.columns[c] = name

(* df[name] *)
column(df, name) == df.data[CHOOSE c \in 1..Len(df.columns) : df.columns[c] = name]

(* df[names]: the named columns over the same index *)
select(df, names) ==
    [index   |-> df.index,
     columns |-> names,
     data    |-> Series([c \in 1..Len(names) |-> column(df, names[c])], Len(names))]

(* pd.DataFrame(index = df.index): no column *)
frame_over(df) == [index |-> df.index, columns |-> << >>, data |-> << >>]

(* df[name] = s: a new column goes last, an existing one is overwritten *)
set_column(df, name, s) ==
    IF has_column(df, name)
    THEN [df EXCEPT !.data[CHOOSE c \in 1..Len(df.columns) : df.columns[c] = name] = s]
    ELSE [df EXCEPT !.columns = Append(@, name), !.data = Append(@, s)]

(* Series.to_frame(name) *)
to_frame(s, name) == [index |-> Len(s), columns |-> << name >>, data |-> << s >>]

(* The z-scores of the proxy components are irrational in general.  The
   flow-attention and factor-side tables keep of each cell whether it holds a
   value: a value is written 1, a missing cell stays missing.  The row means
   and the (value-preserving) winsorization of such tables keep this form.
   The co-movement table keeps its correlations as corr gives them; over a
   window of two periods a correlation is 1 or -1 and is its own signed
   square, so that table and its average are exact for that window. *)
presence(s) == Series([t \in 1..Len(s) |-> IF IsNaN(s[t]) THEN NaN ELSE One], Len(s))

(* Series.rolling(window).sum(): full windows without a missing value only *)
rolling_sum(s, w) ==
    Series([t \in 1..Len(s) |->
               IF t < w \/ Cardinality(Valid(s, t - w + 1, t)) < w THEN NaN
               ELSE SumRange(s, t - w + 1, t)], Len(s))

(* the z-score of the crash frequency: the count over the short window of the
   days below the 5% quantile of the whole series *)
crash_days(r, crash_threshold) ==
    Series([t \in 1..Len(r) |-> IF Lt(r[t], crash_threshold) THEN One ELSE Zero], Len(r))

crash_freq_zscore(r, short) ==
    compute_zscore(rolling_sum(crash_days(r, quantile(r, Len(r), Rat(5, 100))), short),
                   short)

(* the volume z-score of an instrument that has a volume column *)
with_vol_zscore(components, volumes, ticker_name, short) ==
    IF has_column(volumes, ticker_name \o "_vol")
    THEN set_column(components, ticker_name \o "_vol_zscore",
                    presence(compute_zscore(column(volumes, ticker_name \o "_vol"),
                                            short)))
    ELSE components

(* the components of one instrument, added to the table built so far: the
   volume z-score, the z-score of the return run-up, the crash frequency *)
flow_components_of(components, returns, volumes, ticker, short, medium) ==
    LET ticker_name == replace(ticker, "_ret", "")
        r           == column(returns, ticker)
    IN  set_column(
            set_column(with_vol_zscore(components, volumes, ticker_name, short),
                       ticker_name \o "_ret_zscore",
                       presence(compute_zscore(rolling_compound(r, medium), medium))),
            ticker_name \o "_crash_freq",
            presence(crash_freq_zscore(r, short)))

(* the loop over the first k columns of returns *)
RECURSIVE flow_components(_, _, _, _, _)
flow_components(returns, volumes, k, short, medium) ==
    IF k = 0 THEN frame_over(returns)
    ELSE LET components == flow_components(returns, volumes, k - 1, short, medium)
             ticker     == returns.columns[k]
         IN  IF endswith(ticker, "_ret")
             THEN flow_components_of(components, returns, volumes, ticker, short, medium)
             ELSE components

(* what a proxy builder returns and has logged: the component table, and the
   records of its start and of its end *)
created(components, start, name) ==
    [ret |-> components,
     log |-> << Info(start),
                Info(name \o " proxy created with "
                     \o ToString(Len(components.columns)) \o " components") >>]

(* ret: the component table returned; log: the records logged *)
build_flow_attention_proxy(returns, volumes, short, medium) ==
    created(flow_components(returns, volumes, Len(returns.columns), short, medium),
            "Building flow-attention crowding proxy...", "Flow-attention")

(* Pearson correlation of two samples of one length, held as sign(c) * c * c;
   missing when a sample has no spread *)
corr(xs, ys) ==
    LET n    == Len(xs)
        mx   == Div(SumRange(xs, 1, n), Rat(n, 1))
        my   == Div(SumRange(ys, 1, n), Rat(n, 1))
        dx   == Series([k \in 1..n |-> Sub(xs[k], mx)], n)
        dy   == Series([k \in 1..n |-> Sub(ys[k], my)], n)
        cov  == SumRange(Series([k \in 1..n |-> Mul(dx[k], dy[k])], n), 1, n)
        varx == SumRange(Series([k \in 1..n |-> Mul(dx[k], dx[k])], n), 1, n)
        vary == SumRange(Series([k \in 1..n |-> Mul(dy[k], dy[k])], n), 1, n)
    IN  IF n = 0 THEN NaN
        ELSE IF varx = Zero \/ vary = Zero THEN NaN
        ELSE Mul(Rat(Sign(cov[1]), 1), Div(Mul(cov, cov), Mul(varx, vary)))

(* x.rolling(window).corr(y): full windows without a missing value only *)
rolling_corr(x, y, w) ==
    Series([t \in 1..Len(x) |->
               IF t < w \/ Cardinality(Valid(x, t - w + 1, t)) < w
                        \/ Cardinality(Valid(y, t - w + 1, t)) < w THEN NaN
               ELSE corr(SubSeq(x, t - w + 1, t), SubSeq(y, t - w + 1, t))], Len(x))

(* variant: a pair is taken in both orders *)
column_pairs_ordered(n) ==
    LET P       == { q \in (1..n) \X (1..n) : q[1] # q[2] }
        rank(q) == Cardinality({ o \in P : o[1] < q[1] \/ (o[1] = q[1] /\ o[2] < q[2]) }) + 1
    IN  Series([k \in 1..Cardinality(P) |-> CHOOSE q \in P : rank(q) = k], Cardinality(P))

(* the pairs (i, j), i < j, of n columns in the order of the two loops *)
column_pairs(n) ==
    LET P       == { q \in (1..n) \X (1..n) : q[1] < q[2] }
        rank(q) == Cardinality({ o \in P : o[1] < q[1] \/ (o[1] = q[1] /\ o[2] < q[2]) }) + 1
    IN  Series([k \in 1..Cardinality(P) |-> CHOOSE q \in P : rank(q) = k], Cardinality(P))

pair_name(etf_cols, q) ==
    "corr_" \o replace(etf_cols[q[1]], "_ret", "") \o "_"
            \o replace(etf_cols[q[2]], "_ret", "")

RECURSIVE corr_components(_, _, _, _, _)
corr_components(etf_returns, etf_cols, pairs, k, medium) ==
    IF k = 0 THEN frame_over(etf_returns)
    ELSE set_column(corr_components(etf_returns, etf_cols, pairs, k - 1, medium),
                    pair_name(etf_cols, pairs[k]),
                    rolling_corr(column(etf_returns, etf_cols[pairs[k][1]]),
                                 column(etf_returns, etf_cols[pairs[k][2]]),
                                 medium))

IsEtfReturn(col) == endswith(col, "_ret")

IsEtfVolume(col) == endswith(col, "_vol")

(* components["avg_corr"] = components[pairs].mean(axis = 1), if pairs *)
with_avg_corr(correlations, pair_names) ==
    IF Len(pair_names) > 0
    THEN set_column(correlations, "avg_corr",
                    mean_axis1(select(correlations, pair_names)))
    ELSE correlations

(* the pairwise correlations of the instrument columns and their average *)
comovement_components(etf_returns, etf_cols, pairs, medium) ==
    with_avg_corr(corr_components(etf_returns, etf_cols, pairs, Len(pairs), medium),
                  Series([k \in 1..Len(pairs) |-> pair_name(etf_cols, pairs[k])],
                         Len(pairs)))

(* variant: fewer than two instruments are not told apart *)
build_comovement_proxy_unguarded(returns, medium) ==
    LET etf_cols == SelectSeq(returns.columns, IsEtfReturn)
    IN  created(comovement_components(select(returns, etf_cols), etf_cols,
                                      column_pairs(Len(etf_cols)), medium),
                "Building co-movement crowding proxy...", "Co-movement")

(* ret: the component table returned; log: the records logged *)
build_comovement_proxy(returns, medium) ==
    LET etf_cols == SelectSeq(returns.columns, IsEtfReturn)
    IN  IF Len(etf_cols) < 2
        THEN [ret |-> frame_over(returns),
              log |-> << Info("Building co-movement crowding proxy..."),
                         Warning("Need at least 2 ETFs for correlation proxy") >>]
        ELSE created(comovement_components(select(returns, etf_cols), etf_cols,
                                           column_pairs(Len(etf_cols)), medium),
                     "Building co-movement crowding proxy...", "Co-movement")

(* s.rolling(window).apply(autocorr(lag = 1)): the correlation of the window
   with itself one step back, full windows without a missing value only *)
rolling_autocorr(s, w) ==
    Series([t \in 1..Len(s) |->
               IF t < w \/ Cardinality(Valid(s, t - w + 1, t)) < w THEN NaN
               ELSE corr(SubSeq(s, t - w + 2, t), SubSeq(s, t - w + 1, t - 1))], Len(s))

(* the loop over the first k columns of factor_returns.  The rolling
   volatility is held as its square, the autocorrelation c as sign(c) * c * c:
   two of them are equal exactly when the values are, so the z-scores are
   missing at the same positions. *)
RECURSIVE factor_components(_, _, _, _)
factor_components(factor_returns, k, short, medium) ==
    IF k = 0 THEN frame_over(factor_returns)
    ELSE IF factor_returns.columns[k] = "RF"
    THEN factor_components(factor_returns, k - 1, short, medium)
    ELSE LET factor == factor_returns.columns[k]
             r      == column(factor_returns, factor)
         IN  set_column(
                 set_column(factor_components(factor_returns, k - 1, short, medium),
                            factor \o "_vol_zscore",
                            presence(compute_zscore(rolling_var(r, short, short),
                                                    medium))),
                 factor \o "_autocorr_zscore",
                 presence(compute_zscore(rolling_autocorr(r, short), medium)))

(* ret: the component table returned; log: the records logged *)
build_factor_side_proxy(factor_returns, short, medium) ==
    created(factor_components(factor_returns, Len(factor_returns.columns),
                              short, medium),
            "Building factor-side crowding proxy...", "Factor-side")

(* dict.values() of the results, in insertion order *)
values_of(results) == Series([k \in 1..Len(results) |-> results[k].df], Len(results))

not_empty(df) == ~empty(df)

(* the outcome out of build_composite_index, stored under key: an exception
   ends the call *)
store_composite(state, key, name, out) ==
    IF out.exc # NoError
    THEN [state EXCEPT !.exc = out.exc, !.log = @ \o out.log]
    ELSE [state EXCEPT !.results = Append(@, [key |-> key,
                                               df  |-> to_frame(out.ret, name)]),
                       !.log = @ \o out.log]

(* one composite of build_all_crowding_indices: built when wanted, unless an
   earlier one has raised *)
add_composite(state, key, name, dfs, wanted, lower, upper) ==
    IF state.exc # NoError \/ ~wanted THEN state
    ELSE store_composite(state, key, name, build_composite_index(dfs, TRUE, lower, upper))

(* the composite of the proxy table stored k-th *)
add_proxy_composite(state, k, key, name, lower, upper) ==
    add_composite(state, key, name, << state.results[k].df >>,
                  ~empty(state.results[k].df), lower, upper)

(* the composite of every non-empty table stored so far *)
add_composite_all(state, lower, upper) ==
    LET non_empty == SelectSeq(values_of(state.results), not_empty)
    IN  add_composite(state, "crowding_index_all", "CrowdingIndex_All",
                      non_empty, Len(non_empty) > 0, lower, upper)

(* the three proxy tables stored, and what building them logged *)
proxy_results(flow_attention, comovement, factor_side) ==
    [results |-> << [key |-> "flow_attention", df |-> flow_attention.ret],
                    [key |-> "comovement", df |-> comovement.ret],
                    [key |-> "factor_side", df |-> factor_side.ret] >>,
     exc     |-> NoError,
     log     |-> << Info("Building all crowding indices...") >>
                 \o flow_attention.log \o comovement.log \o factor_side.log]

returned(state) ==
    IF state.exc # NoError
    THEN [ret |-> << >>, exc |-> state.exc, log |-> state.log]
    ELSE [ret |-> state.results, exc |-> NoError,
          log |-> Append(state.log, Info("All crowding indices built successfully"))]

(* a proxy built from its columns of the master table, or the table without
   columns and a warning when told that these are insufficient *)
proxy_or_warning(master, insufficient, proxy, message) ==
    IF insufficient
    THEN [ret |-> frame_over(master), log |-> << Warning(message) >>]
    ELSE proxy

(* ret: the dictionary returned, as its (key, table) items in insertion order;
   exc: the exception raised instead; log: the records logged *)
build_all_crowding_indices(master, short, medium, lower, upper) ==
    LET IsHeld(col)     == has_column(master, col)
        etf_return_cols == SelectSeq(master.columns, IsEtfReturn)
        etf_volume_cols == SelectSeq(master.columns, IsEtfVolume)
        factor_cols     == << "Mkt-RF", "SMB", "HML", "Mom" >>
        etf_returns     == select(master, etf_return_cols)
        etf_volumes     == select(master, etf_volume_cols)
        factor_returns  == select(master, SelectSeq(factor_cols, IsHeld))
    IN  returned(
          add_composite_all(
            add_proxy_composite(
              add_proxy_composite(
                add_proxy_composite(
                  proxy_results(
                    proxy_or_warning(
                      master, empty(etf_returns) \/ empty(etf_volumes),
                      build_flow_attention_proxy(etf_returns, etf_volumes, short, medium),
                      "Insufficient ETF data for flow-attention proxy"),
                    proxy_or_warning(
                      master, empty(etf_returns),
                      build_comovement_proxy(etf_returns, medium),
                      "Insufficient ETF data for co-movement proxy"),
                    proxy_or_warning(
                      master, empty(factor_returns),
                      build_factor_side_proxy(factor_returns, short, medium),
                      "Insufficient factor data for factor-side proxy")),
                  1, "crowding_index_a", "CrowdingIndex_A", lower, upper),
                2, "crowding_index_b", "CrowdingIndex_B", lower, upper),
              3, "crowding_index_c", "CrowdingIndex_C", lower, upper),
            lower, upper))

(* ------------------------------------------------------------------ *)
(* State                                                               *)
(* ------------------------------------------------------------------ *)
VARIABLES
    short_window,        \* self.short_window
    medium_window,       \* self.medium_window
    long_window,         \* self.long_window
    winsorize_lower,     \* self.winsorize_lower
    winsorize_upper,     \* self.winsorize_upper
    series,              \* the series handed to the builder
    component_dfs,       \* the component tables handed to the builder
    master_data,         \* the aligned table handed to the builder
    log,                 \* records the crowding logger got during the last call
    crash_percentile,    \* self.crash_percentile
    drawdown_threshold,  \* self.drawdown_threshold
    returns,             \* the return series handed to the analyzer
    pc,                  \* "ready", or "walk" inside compute_drawdown_episodes
    i,                   \* loop index of the episode walk (1-based)
    start_idx,           \* start of the open episode, 0 for None
    episodes,            \* episodes collected so far by the walk
    call,                \* name of the call in progress, else of the last call
    args,                \* its arguments other than the series
    result,              \* its return value
    raised               \* the exception it raised, << >> for none

vars == << crash_percentile, drawdown_threshold, returns, pc, i, start_idx,
           episodes, call, args, result, raised,
           short_window, medium_window, long_window, winsorize_lower,
           winsorize_upper, series, component_dfs, master_data, log >>

analyzer_fields == << crash_percentile, drawdown_threshold >>

builder_fields == << short_window, medium_window, long_window, winsorize_lower,
                     winsorize_upper >>

builder_inputs == << series, component_dfs, master_data >>

DefaultShortWindow == 63

DefaultMediumWindow == 126

DefaultLongWindow == 252

DefaultWinsorizeLower == 1

DefaultWinsorizeUpper == 99

DefaultCrashPercentile == 1

DefaultDrawdownThreshold == 5

(* a CrowdingIndexBuilder with its defaults that has not been called *)
BuilderUnused ==
    /\ short_window = DefaultShortWindow
    /\ medium_window = DefaultMediumWindow
    /\ long_window = DefaultLongWindow
    /\ winsorize_lower = DefaultWinsorizeLower
    /\ winsorize_upper = DefaultWinsorizeUpper
    /\ series = << >>
    /\ component_dfs = << >>
    /\ master_data = EmptyTable
    /\ log = << >>

(* a DrawdownAnalyzer with its defaults that has not been called *)
AnalyzerUnused ==
    /\ crash_percentile = DefaultCrashPercentile
    /\ drawdown_threshold = DefaultDrawdownThreshold
    /\ returns = << >>
    /\ pc = "ready"
    /\ i = 0
    /\ start_idx = 0
    /\ episodes = << >>

NoArgs == [window |-> 0, method |-> "-"]

Init ==
    /\ crash_percentile \in Percentiles
    /\ drawdown_threshold \in Thresholds
    /\ returns \in AllSeries
    /\ pc = "ready"
    /\ i = 0
    /\ start_idx = 0
    /\ episodes = << >>
    /\ call = "__init__"
    /\ args = NoArgs
    /\ result = << >>
    /\ raised = NoError
    /\ BuilderUnused

(* variant: compute_cumulative_returns compounds the series it was given in
   place *)
Return_in_place(name, a, value, exc) ==
    /\ call' = name
    /\ args' = a
    /\ result' = value
    /\ raised' = exc
    /\ returns' = IF name = "compute_cumulative_returns" THEN value ELSE returns
    /\ UNCHANGED << crash_percentile, drawdown_threshold >>
    /\ UNCHANGED << builder_fields, builder_inputs, log >>

Return(name, a, value, exc) ==
    /\ call' = name
    /\ args' = a
    /\ result' = value
    /\ raised' = exc
    /\ UNCHANGED << crash_percentile, drawdown_threshold, returns >>
    /\ UNCHANGED << builder_fields, builder_inputs, log >>

Idle == UNCHANGED << pc, i, start_idx, episodes >>

ComputeCumulativeReturns ==
    /\ pc = "ready"
    /\ Return("compute_cumulative_returns", NoArgs, compute_cumulative_returns(returns), NoError)
    /\ Idle

ComputeRunningMax ==
    /\ pc = "ready"
    /\ Return("compute_running_max", NoArgs,
              compute_running_max(compute_cumulative_returns(returns)), NoError)
    /\ Idle

ComputeDrawdown ==
    /\ pc = "ready"
    /\ Return("compute_drawdown", NoArgs, compute_drawdown(returns), NoError)
    /\ Idle

ComputeMaxDrawdown ==
    /\ pc = "ready"
    /\ Return("compute_max_drawdown", NoArgs, compute_max_drawdown(returns), NoError)
    /\ Idle

IdentifyCrashEvents ==
    /\ pc = "ready"
    /\ \E w \in Windows, m \in Methods :
          LET out == identify_crash_events(returns, w, m, crash_percentile)
          IN  Return("identify_crash_events", [window |-> w, method |-> m],
                     out.ret, out.exc)
    /\ Idle

(* compute_drawdown_episodes: entry, one loop iteration, end of series *)
EpisodesBegin ==
    /\ pc = "ready"
    /\ pc' = "walk"
    /\ i' = 1
    /\ start_idx' = 0
    /\ episodes' = << >>
    /\ call' = "compute_drawdown_episodes"
    /\ args' = NoArgs
    /\ result' = << >>
    /\ raised' = NoError
    /\ UNCHANGED << crash_percentile, drawdown_threshold, returns >>
    /\ UNCHANGED << builder_fields, builder_inputs, log >>

EpisodesStep ==
    /\ pc = "walk"
    /\ i <= Len(returns)
    /\ LET drawdown    == compute_drawdown(returns)
           cum_returns == compute_cumulative_returns(returns)
           in_dd       == in_drawdown(drawdown)[i]
       IN  IF in_dd /\ start_idx = 0
           THEN /\ start_idx' = i
                /\ episodes' = episodes
           ELSE IF ~in_dd /\ start_idx # 0
           THEN /\ start_idx' = 0
                /\ episodes' =
                     IF ExceedsThreshold(drawdown, start_idx, i - 1, drawdown_threshold)
                     THEN Append(episodes, Episode(drawdown, cum_returns, start_idx, i - 1))
                     ELSE episodes
           ELSE UNCHANGED << start_idx, episodes >>
    /\ i' = i + 1
    /\ UNCHANGED << crash_percentile, drawdown_threshold, returns, pc, call, args,
                    result, raised >>
    /\ UNCHANGED << builder_fields, builder_inputs, log >>

(* variant: an episode still open at the end of the series is dropped *)
EpisodesEnd_dropping_open ==
    /\ pc = "walk"
    /\ i > Len(returns)
    /\ Return("compute_drawdown_episodes", NoArgs, episodes, NoError)
    /\ pc' = "ready"
    /\ i' = 0
    /\ start_idx' = 0
    /\ episodes' = << >>

EpisodesEnd ==
    /\ pc = "walk"
    /\ i > Len(returns)
    /\ LET drawdown    == compute_drawdown(returns)
           cum_returns == compute_cumulative_returns(returns)
           n           == Len(returns)
           final       ==
               IF start_idx # 0 /\ ExceedsThreshold(drawdown, start_idx, n, drawdown_threshold)
               THEN Append(episodes, Episode(drawdown, cum_returns, start_idx, n))
               ELSE episodes
       IN  Return("compute_drawdown_episodes", NoArgs, final, NoError)
    /\ pc' = "ready"
    /\ i' = 0
    /\ start_idx' = 0
    /\ episodes' = << >>

Next ==
    \/ ComputeCumulativeReturns
    \/ ComputeRunningMax
    \/ ComputeDrawdown
    \/ ComputeMaxDrawdown
    \/ IdentifyCrashEvents
    \/ EpisodesBegin
    \/ EpisodesStep
    \/ EpisodesEnd

Spec == Init /\ [][Next]_vars

(* ------------------------------------------------------------------ *)
(* CrowdingIndexBuilder: calls on one series                           *)
(* ------------------------------------------------------------------ *)
BuilderReturn(name, a, value, exc, records) ==
    /\ pc = "ready"
    /\ call' = name
    /\ args' = a
    /\ result' = value
    /\ raised' = exc
    /\ log' = records
    /\ UNCHANGED << builder_fields, builder_inputs >>
    /\ UNCHANGED << analyzer_fields, returns, pc, i, start_idx, episodes >>

(* the call name ends with the outcome out: what it returned, the exception
   it raised and the records it logged *)
BuilderOutcome(name, a, out) == BuilderReturn(name, a, out.ret, out.exc, out.log)

(* the call name, which raises nothing, ends with the outcome out *)
BuilderResult(name, a, out) == BuilderReturn(name, a, out.ret, NoError, out.log)

InitSeries ==
    /\ AnalyzerUnused
    /\ short_window = DefaultShortWindow
    /\ medium_window = DefaultMediumWindow
    /\ long_window = DefaultLongWindow
    /\ winsorize_lower \in WinsorizeLower
    /\ winsorize_upper \in WinsorizeUpper
    /\ series \in SeriesInputs
    /\ component_dfs = << >>
    /\ master_data = EmptyTable
    /\ log = << >>
    /\ call = "__init__"
    /\ args = NoArgs
    /\ result = << >>
    /\ raised = NoError

WinsorizeSeries ==
    LET out == winsorize_series(series, winsorize_lower, winsorize_upper)
    IN  BuilderReturn("winsorize_series", NoArgs, out.ret, out.exc, << >>)

ComputeZscore ==
    \E w \in ZscoreWindows :
        BuilderReturn("compute_zscore", [window |-> w, method |-> "-"],
                      compute_zscore(series, w), NoError, << >>)

NextSeries ==
    \/ WinsorizeSeries
    \/ ComputeZscore

SpecSeries == InitSeries /\ [][NextSeries]_vars

(* ------------------------------------------------------------------ *)
(* CrowdingIndexBuilder: calls on component tables                     *)
(* ------------------------------------------------------------------ *)
InitComposite ==
    /\ AnalyzerUnused
    /\ short_window = DefaultShortWindow
    /\ medium_window = DefaultMediumWindow
    /\ long_window = DefaultLongWindow
    /\ winsorize_lower \in WinsorizeLower
    /\ winsorize_upper \in WinsorizeUpper
    /\ series = << >>
    /\ component_dfs \in TableLists
    /\ master_data = EmptyTable
    /\ log = << >>
    /\ call = "__init__"
    /\ args = NoArgs
    /\ result = << >>
    /\ raised = NoError

BuildCompositeIndex ==
    \E winsorize_final \in BOOLEAN :
        BuilderOutcome("build_composite_index",
                       [window |-> 0, method |-> "-", winsorize |-> winsorize_final],
                       build_composite_index(component_dfs, winsorize_final,
                                             winsorize_lower, winsorize_upper))

NextComposite == BuildCompositeIndex

SpecComposite == InitComposite /\ [][NextComposite]_vars

(* ------------------------------------------------------------------ *)
(* CrowdingIndexBuilder: calls on an aligned table                     *)
(* ------------------------------------------------------------------ *)
(* aligned input tables: a choice of columns, each flat or moving *)
Universe == << "MTUM_ret", "VLUE_ret", "MTUM_vol", "VLUE_vol", "Mom", "RF" >>

Patterns == { "flat", "moving" }

MovingReturns == << Rat(1, 1), Rat(-1, 2), Rat(1, 2), Rat(-1, 2), Rat(1, 1), Rat(1, 2) >>

MovingVolumes == << Rat(1, 1), Rat(2, 1), Rat(3, 1), Rat(1, 1), Rat(4, 1), Rat(2, 1) >>

WindowPairs == { << 3, 2 >>, << DefaultShortWindow, DefaultMediumWindow >> }

RECURSIVE pick(_, _)
pick(S, k) ==
    IF k = 0 THEN << >>
    ELSE IF k \in S THEN Append(pick(S, k - 1), k) ELSE pick(S, k - 1)

input_series(col, pattern, n) ==
    Series([t \in 1..n |->
               IF IsEtfVolume(col)
               THEN (IF pattern = "flat" THEN Rat(2, 1) ELSE MovingVolumes[t])
               ELSE (IF pattern = "flat" THEN Rat(1, 2) ELSE MovingReturns[t])], n)

input_table(n, S, pattern) ==
    LET held == pick(S, Len(Universe))
    IN  [index   |-> n,
         columns |-> Series([c \in 1..Len(held) |-> Universe[held[c]]], Len(held)),
         data    |-> Series([c \in 1..Len(held) |->
                               input_series(Universe[held[c]], pattern[held[c]], n)],
                            Len(held))]

MasterTables ==
    UNION { UNION { { input_table(n, S, pattern) : pattern \in [S -> Patterns] } :
                      S \in SUBSET (1..Len(Universe)) } : n \in 0..MaxLen }

InitBuild ==
    /\ AnalyzerUnused
    /\ \E windows \in WindowPairs :
          short_window = windows[1] /\ medium_window = windows[2]
    /\ long_window = DefaultLongWindow
    /\ winsorize_lower = DefaultWinsorizeLower
    /\ winsorize_upper = DefaultWinsorizeUpper
    /\ series = << >>
    /\ component_dfs = << >>
    /\ master_data \in MasterTables
    /\ log = << >>
    /\ call = "__init__"
    /\ args = NoArgs
    /\ result = << >>
    /\ raised = NoError

BuildFlowAttentionProxy ==
    BuilderResult("build_flow_attention_proxy", NoArgs,
                  build_flow_attention_proxy(master_data, master_data,
                                             short_window, medium_window))

BuildComovementProxy ==
    BuilderResult("build_comovement_proxy", NoArgs,
                  build_comovement_proxy(master_data, medium_window))

BuildFactorSideProxy ==
    LET IsFactor(col) == ~IsEtfReturn(col) /\ ~IsEtfVolume(col)
    IN  BuilderResult("build_factor_side_proxy", NoArgs,
                      build_factor_side_proxy(
                          select(master_data, SelectSeq(master_data.columns, IsFactor)),
                          short_window, medium_window))

BuildAllCrowdingIndices ==
    BuilderOutcome("build_all_crowding_indices", NoArgs,
                   build_all_crowding_indices(master_data, short_window, medium_window,
                                              winsorize_lower, winsorize_upper))

NextBuild ==
    \/ BuildFlowAttentionProxy
    \/ BuildComovementProxy
    \/ BuildFactorSideProxy
    \/ BuildAllCrowdingIndices

SpecBuild == InitBuild /\ [][NextBuild]_vars

(* ------------------------------------------------------------------ *)
(* CrowdingIndexBuilder: the co-movement proxy of three instruments    *)
(* ------------------------------------------------------------------ *)
(* the return columns of the configured instruments, and a volume column *)
InstrumentReturns == << "MTUM_ret", "VLUE_ret", "USMV_ret" >>

ReturnLevels == { Rat(-1, 2), Rat(1, 1) }

(* a correlation window of two periods, and the default one *)
ComovementWindows == { 2, DefaultMediumWindow }

(* a table of n rows holding the return columns S, after a volume column when
   with_volume *)
returns_table(n, S, data, with_volume) ==
    LET held    == pick(S, Len(InstrumentReturns))
        returns_of == [index   |-> n,
                       columns |-> Series([c \in 1..Len(held) |->
                                             InstrumentReturns[held[c]]], Len(held)),
                       data    |-> Series([c \in 1..Len(held) |-> data[held[c]]],
                                          Len(held))]
    IN  IF with_volume
        THEN [index   |-> n,
              columns |-> << "MTUM_vol" >> \o returns_of.columns,
              data    |-> << Series([t \in 1..n |-> Rat(2, 1)], n) >> \o returns_of.data]
        ELSE returns_of

ReturnTables ==
    UNION { UNION { { returns_table(n, S, data, with_volume) :
                        data \in [S -> [1..n -> ReturnLevels]],
                        with_volume \in BOOLEAN } :
                      S \in SUBSET (1..Len(InstrumentReturns)) } : n \in 0..MaxRows }

InitComovement ==
    /\ AnalyzerUnused
    /\ short_window = DefaultShortWindow
    /\ medium_window \in ComovementWindows
    /\ long_window = DefaultLongWindow
    /\ winsorize_lower = DefaultWinsorizeLower
    /\ winsorize_upper = DefaultWinsorizeUpper
    /\ series = << >>
    /\ component_dfs = << >>
    /\ master_data \in ReturnTables
    /\ log = << >>
    /\ call = "__init__"
    /\ args = NoArgs
    /\ result = << >>
    /\ raised = NoError

NextComovement == BuildComovementProxy

SpecComovement == InitComovement /\ [][NextComovement]_vars

(* ------------------------------------------------------------------ *)
(* DrawdownAnalyzer: calls on the sample series of the tests           *)
(* ------------------------------------------------------------------ *)
(* 50 periods of 0.01, 25 periods of -0.02, 25 periods of 0.01 *)
RisePeriods == 50

DeclinePeriods == 25

RecoveryPeriods == 25

DeclineEnd == RisePeriods + DeclinePeriods

sample_returns ==
    SeriesOver([t \in 1..(DeclineEnd + RecoveryPeriods) |->
                   IF t <= RisePeriods THEN Rat(1, 100)
                   ELSE IF t <= DeclineEnd THEN Rat(-2, 100) ELSE Rat(1, 100)],
               1, DeclineEnd + RecoveryPeriods)

(* the threshold of the test, and thresholds around 100 * (1 - 0.98^25) *)
SampleThresholds == { Rat(1, 1), Rat(3965, 100), Rat(3966, 100), Rat(397, 10) }

InitSample ==
    /\ crash_percentile = DefaultCrashPercentile
    /\ drawdown_threshold \in SampleThresholds
    /\ returns = sample_returns
    /\ pc = "ready"
    /\ i = 0
    /\ start_idx = 0
    /\ episodes = << >>
    /\ call = "__init__"
    /\ args = NoArgs
    /\ result = << >>
    /\ raised = NoError
    /\ BuilderUnused

ComputeDrawdownExact ==
    /\ pc = "ready"
    /\ Return("compute_drawdown", NoArgs, compute_drawdown_exact(returns), NoError)
    /\ Idle

ComputeMaxDrawdownExact ==
    /\ pc = "ready"
    /\ Return("compute_max_drawdown", NoArgs, compute_max_drawdown_exact(returns), NoError)
    /\ Idle

(* compute_drawdown_episodes: at entry the drawdown and cumulative series
   are computed once; args holds them while the walk runs *)
EpisodesBeginExact ==
    /\ pc = "ready"
    /\ pc' = "walk"
    /\ i' = 1
    /\ start_idx' = 0
    /\ episodes' = << >>
    /\ call' = "compute_drawdown_episodes"
    /\ args' = [drawdown    |-> compute_drawdown_exact(returns),
                cum_returns |-> compute_cumulative_returns_exact(returns)]
    /\ result' = << >>
    /\ raised' = NoError
    /\ UNCHANGED << crash_percentile, drawdown_threshold, returns >>
    /\ UNCHANGED << builder_fields, builder_inputs, log >>

EpisodesStepExact ==
    /\ pc = "walk"
    /\ i <= Len(returns)
    /\ LET drawdown    == args.drawdown
           cum_returns == args.cum_returns
           in_dd       == in_drawdown_exact(drawdown)[i]
       IN  IF in_dd /\ start_idx = 0
           THEN /\ start_idx' = i
                /\ episodes' = episodes
           ELSE IF ~in_dd /\ start_idx # 0
           THEN /\ start_idx' = 0
                /\ episodes' =
                     IF ExceedsThreshold_exact(drawdown, start_idx, i - 1,
                                               drawdown_threshold)
                     THEN Append(episodes,
                                 Episode_exact(drawdown, cum_returns, start_idx, i - 1))
                     ELSE episodes
           ELSE UNCHANGED << start_idx, episodes >>
    /\ i' = i + 1
    /\ UNCHANGED << crash_percentile, drawdown_threshold, returns, pc, call, args,
                    result, raised >>
    /\ UNCHANGED << builder_fields, builder_inputs, log >>

EpisodesEndExact ==
    /\ pc = "walk"
    /\ i > Len(returns)
    /\ LET drawdown    == args.drawdown
           cum_returns == args.cum_returns
           n           == Len(returns)
           final       ==
               IF start_idx # 0
                  /\ ExceedsThreshold_exact(drawdown, start_idx, n, drawdown_threshold)
               THEN Append(episodes, Episode_exact(drawdown, cum_returns, start_idx, n))
               ELSE episodes
       IN  Return("compute_drawdown_episodes", NoArgs, final, NoError)
    /\ pc' = "ready"
    /\ i' = 0
    /\ start_idx' = 0
    /\ episodes' = << >>

NextSample ==
    \/ ComputeDrawdownExact
    \/ ComputeMaxDrawdownExact
    \/ EpisodesBeginExact
    \/ EpisodesStepExact
    \/ EpisodesEndExact

SpecSample == InitSample /\ [][NextSample]_vars

(* ------------------------------------------------------------------ *)
(* DrawdownAnalyzer: crash events of the series of the crash test      *)
(* ------------------------------------------------------------------ *)
(* 1000 small returns; position 100 is set to -0.05 and position 500 to
   -0.06 (positions count from 0 in the test, from 1 here) *)
SeriesLength == 1000

FirstCrashAt == 101

SecondCrashAt == 501

FirstCrash == Rat(-5, 100)

SecondCrash == Rat(-6, 100)

(* the small returns are multiples of 0.00025 on a grid of that many levels
   from -0.04975 upwards: one level makes them all equal, few levels give
   many ties, more levels than periods make them all different *)
Levels == { 1, 7, 1009 }

Seeds == 1..7

noise(t, seed, levels) == Rat(((seed * t) % levels) - 199, 4000)

crash_test_returns(seed, levels) ==
    SeriesOver([t \in 1..SeriesLength |->
                   IF t = FirstCrashAt THEN FirstCrash
                   ELSE IF t = SecondCrashAt THEN SecondCrash
                   ELSE noise(t, seed, levels)], 1, SeriesLength)

CrashTestSeries == { crash_test_returns(seed, levels) : seed \in Seeds, levels \in Levels }

(* the percentile of the scenario and the percentile of the test *)
CrashPercentiles == { 1, 5 }

(* the test calls with window = 1 and the default method *)
DailyMethods == { "historical", "expanding" }

InitCrash ==
    /\ crash_percentile \in CrashPercentiles
    /\ drawdown_threshold = DefaultDrawdownThreshold
    /\ returns \in CrashTestSeries \cup AllSeries
    /\ pc = "ready"
    /\ i = 0
    /\ start_idx = 0
    /\ episodes = << >>
    /\ call = "__init__"
    /\ args = NoArgs
    /\ result = << >>
    /\ raised = NoError
    /\ BuilderUnused

IdentifyDailyCrashEvents ==
    /\ pc = "ready"
    /\ \E m \in DailyMethods :
          LET out == identify_crash_events(returns, 1, m, crash_percentile)
          IN  Return("identify_crash_events", [window |-> 1, method |-> m],
                     out.ret, out.exc)
    /\ Idle

NextCrash == IdentifyDailyCrashEvents

SpecCrash == InitCrash /\ [][NextCrash]_vars

(* ------------------------------------------------------------------ *)
(* One analyzer and one builder called in turn on the same data        *)
(* ------------------------------------------------------------------ *)
(* returns that keep the wealth positive *)
CoreSeries == UNION { [1..n -> ReturnValues \ { Rat(-2, 1) }] : n \in 0..MaxRows }

(* the series as a one-column component table, k times *)
core_components(s, k) == [c \in 1..k |-> to_frame(s, ColumnNames[c])]

(* the aligned table over as many rows, with every column *)
core_table(n) == input_table(n, 1..Len(Universe), [c \in 1..Len(Universe) |-> "moving"])

InitCore ==
    /\ crash_percentile = DefaultCrashPercentile
    /\ drawdown_threshold = DefaultDrawdownThreshold
    /\ returns \in CoreSeries
    /\ pc = "ready"
    /\ i = 0
    /\ start_idx = 0
    /\ episodes = << >>
    /\ short_window = 3
    /\ medium_window = 2
    /\ long_window = DefaultLongWindow
    /\ winsorize_lower = DefaultWinsorizeLower
    /\ winsorize_upper = DefaultWinsorizeUpper
    /\ series = returns
    /\ component_dfs \in { core_components(returns, k) : k \in TableCounts }
    /\ master_data = core_table(Len(returns))
    /\ log = << >>
    /\ call = "__init__"
    /\ args = NoArgs
    /\ result = << >>
    /\ raised = NoError

NextCore ==
    \/ ComputeCumulativeReturns
    \/ ComputeRunningMax
    \/ ComputeDrawdown
    \/ ComputeMaxDrawdown
    \/ IdentifyCrashEvents
    \/ EpisodesBegin
    \/ EpisodesStep
    \/ EpisodesEnd
    \/ WinsorizeSeries
    \/ ComputeZscore
    \/ BuildFlowAttentionProxy
    \/ BuildComovementProxy
    \/ BuildFactorSideProxy
    \/ BuildCompositeIndex

SpecCore == InitCore /\ [][NextCore]_vars

(* ------------------------------------------------------------------ *)
(* Vocabulary of the properties                                        *)
(* ------------------------------------------------------------------ *)
Done(name) == pc = "ready" /\ call = name

(* wealth[t]: the product of (1 + return) over the first t periods *)
RECURSIVE WealthAt(_, _)
WealthAt(r, t) == IF t = 0 THEN One ELSE Mul(WealthAt(r, t - 1), Add(One, r[t]))

(* peak[t]: the largest wealth of the first t periods, t >= 1 *)
RECURSIVE PeakAt(_, _)
PeakAt(r, t) ==
    IF t = 1 THEN WealthAt(r, 1)
    ELSE IF Lt(PeakAt(r, t - 1), WealthAt(r, t)) THEN WealthAt(r, t)
    ELSE PeakAt(r, t - 1)

Positions == 1..Len(returns)

(* C1 as stated: after compute_drawdown, every value of the drawdown
   series is <= 0, whatever the returns are. *)
C1_DrawdownNonPositive ==
    Done("compute_drawdown") =>
        \A t \in Positions : Le(result[t], Zero)

(* C1 amended: after compute_drawdown, the drawdown is <= 0 at every index
   whose running peak is positive. *)
C1_DrawdownNonPositiveOnPositivePeak ==
    Done("compute_drawdown") =>
        \A t \in Positions :
            Lt(Zero, PeakAt(returns, t)) => Le(result[t], Zero)

C1_Witness ==
    /\ Done("compute_drawdown")
    /\ \E t \in Positions : Lt(Zero, PeakAt(returns, t)) /\ Lt(result[t], Zero)
    /\ \E t \in Positions : Lt(Zero, PeakAt(returns, t)) /\ result[t] = Zero

(* C2 as stated: after compute_drawdown, the drawdown is exactly 0 at every
   index where wealth equals its running peak. *)
C2_ZeroAtPeak ==
    Done("compute_drawdown") =>
        \A t \in Positions :
            WealthAt(returns, t) = PeakAt(returns, t) => result[t] = Zero

(* C2 amended: after compute_drawdown, the drawdown is exactly 0 at every
   index where wealth equals its running peak and that peak is not 0; where
   wealth and peak are both 0 the drawdown is missing. *)
C2_ZeroAtNonZeroPeak ==
    Done("compute_drawdown") =>
        \A t \in Positions :
            WealthAt(returns, t) = PeakAt(returns, t) =>
                IF PeakAt(returns, t) = Zero THEN IsNaN(result[t])
                ELSE result[t] = Zero

C2_Witness ==
    /\ Done("compute_drawdown")
    /\ \E t \in Positions :
          /\ t > 1
          /\ WealthAt(returns, t) = PeakAt(returns, t)
          /\ Lt(PeakAt(returns, t - 1), PeakAt(returns, t))
          /\ PeakAt(returns, t) # Zero
          /\ result[t] = Zero

(* maximal contiguous runs <<s, e>> of indices with negative drawdown *)
NegativeRuns(dd) ==
    { run \in (1..Len(dd)) \X (1..Len(dd)) :
        /\ run[1] <= run[2]
        /\ \A k \in run[1]..run[2] : Lt(dd[k], Zero)
        /\ run[1] > 1 => ~Lt(dd[run[1] - 1], Zero)
        /\ run[2] < Len(dd) => ~Lt(dd[run[2] + 1], Zero) }

(* runs whose deepest drawdown reaches the threshold (given in percent) *)
DeepRuns(dd, thr) ==
    { run \in NegativeRuns(dd) :
        \E k \in run[1]..run[2] : Le(Rat(thr, 100), AbsF(dd[k])) }

Emitted == { << result[k].start_date, result[k].end_date >> : k \in 1..Len(result) }

(* C3: compute_drawdown_episodes emits exactly one episode for each maximal
   run of negative drawdown whose minimum reaches the threshold and none for
   any other interval; inside an episode the drawdown is negative, just
   before its start and just after its end it is >= 0. *)
C3_OneEpisodePerDeepRun ==
    Done("compute_drawdown_episodes") =>
        LET dd == compute_drawdown(returns)
        IN  /\ Emitted = DeepRuns(dd, drawdown_threshold)
            /\ Cardinality(Emitted) = Len(result)
            /\ \A k \in 1..Len(result) :
                  LET s == result[k].start_date
                      e == result[k].end_date
                  IN  /\ \A j \in s..e : Lt(dd[j], Zero)
                      /\ s > 1 => Ge(dd[s - 1], Zero)
                      /\ e < Len(dd) => Ge(dd[e + 1], Zero)

C3_Witness ==
    /\ Done("compute_drawdown_episodes")
    /\ Len(result) >= 1
    /\ Cardinality(NegativeRuns(compute_drawdown(returns))) > Len(result)
    /\ result[1].end_date < Len(returns)

(* C4: the depth of every emitted episode is the minimum of the drawdown
   over [start, end] and its magnitude is at least drawdown_threshold/100. *)
C4_DepthIsMinimumAndDeep ==
    Done("compute_drawdown_episodes") =>
        LET dd == compute_drawdown(returns)
        IN  \A k \in 1..Len(result) :
              LET depth == Div(result[k].depth_pct, Hundred)
                  span  == result[k].start_date..result[k].end_date
              IN  /\ \E j \in span : dd[j] = depth
                  /\ \A j \in span : Le(depth, dd[j])
                  /\ Le(Rat(drawdown_threshold, 100), AbsF(depth))

C4_Witness ==
    /\ Done("compute_drawdown_episodes")
    /\ drawdown_threshold = 75
    /\ \E k \in 1..Len(result) :
          /\ result[k].end_date > result[k].trough_date
          /\ compute_drawdown(returns)[result[k].end_date] # Div(result[k].depth_pct, Hundred)

(* C5: episodes are in chronological order and do not overlap:
   start <= trough <= end within an episode, end < start of the next. *)
C5_EpisodesOrderedDisjoint ==
    Done("compute_drawdown_episodes") =>
        /\ \A k \in 1..Len(result) :
              /\ result[k].start_date <= result[k].trough_date
              /\ result[k].trough_date <= result[k].end_date
        /\ \A k \in 1..(Len(result) - 1) :
              result[k].end_date < result[k + 1].start_date

C5_Witness ==
    /\ Done("compute_drawdown_episodes")
    /\ Len(result) >= 2
    /\ result[1].end_date + 1 < result[2].start_date

(* C6: compute_running_max(wealth) is non-decreasing, starts at wealth[0],
   is the maximum of wealth[0..t] and so is >= wealth[t] at every t. *)
C6_RunningMaxIsExpandingMaximum ==
    Done("compute_running_max") =>
        /\ Len(result) = Len(returns)
        /\ Len(returns) > 0 => result[1] = WealthAt(returns, 1)
        /\ \A t \in Positions :
              /\ t > 1 => Le(result[t - 1], result[t])
              /\ Le(WealthAt(returns, t), result[t])
              /\ \E k \in 1..t : result[t] = WealthAt(returns, k)
              /\ \A k \in 1..t : Le(WealthAt(returns, k), result[t])

C6_Witness ==
    /\ Done("compute_running_max")
    /\ \E t \in Positions : Lt(WealthAt(returns, t), result[t])
    /\ \E t \in Positions : t > 1 /\ Lt(result[t - 1], result[t])

(* C7 as stated: for a non-empty series compute_max_drawdown is the minimum
   value of the drawdown series and is <= 0. *)
C7_MaxDrawdownIsMinimum ==
    (Done("compute_max_drawdown") /\ Len(returns) > 0) =>
        LET dd == compute_drawdown(returns)
        IN  /\ \E t \in Positions : result = dd[t]
            /\ \A t \in Positions : ~Lt(dd[t], result)
            /\ Le(result, Zero)

(* C7 amended: for a non-empty series whose first return is not -1,
   compute_max_drawdown is the minimum of the defined values of the drawdown
   series and is <= 0; when the first return is -1 the whole drawdown series
   is missing and so is the result. *)
C7_MaxDrawdownIsMinimumOfDefined ==
    (Done("compute_max_drawdown") /\ Len(returns) > 0) =>
        LET dd == compute_drawdown(returns)
        IN  IF returns[1] = Rat(-1, 1)
            THEN IsNaN(result) /\ \A t \in Positions : IsNaN(dd[t])
            ELSE /\ \E t \in Positions : result = dd[t]
                 /\ \A t \in Positions : ~IsNaN(dd[t]) => Le(result, dd[t])
                 /\ Le(result, Zero)

C7_Witness ==
    /\ Done("compute_max_drawdown")
    /\ Len(returns) > 1
    /\ returns[1] # Rat(-1, 1)
    /\ Lt(result, Zero)
    /\ compute_drawdown(returns)[Len(returns)] # result

(* C8: with method 'rolling' the flag at t is
   period_return[t] < quantile(period_return[0..t]) and is the flag the call
   returns at t for the series cut off after t: it depends on the returns up
   to and including t only. *)
C8_RollingHasNoLookAhead ==
    (Done("identify_crash_events") /\ args.method = "rolling") =>
        /\ raised = NoError
        /\ Len(result) = Len(returns)
        /\ \A t \in Positions :
              LET past == SubSeq(returns, 1, t)
                  pr   == period_returns(past, args.window)
              IN  /\ result[t] = Lt(pr[t], quantile(pr, t, Rat(crash_percentile, 100)))
                  /\ result[t] =
                       identify_crash_events(past, args.window, "rolling",
                                             crash_percentile).ret[t]

C8_Witness ==
    /\ Done("identify_crash_events")
    /\ args.method = "rolling"
    /\ \E t \in Positions :
          /\ t < Len(returns)
          /\ result[t] # identify_crash_events(returns, args.window, "historical",
                                               crash_percentile).ret[t]

(* C9: with method 'historical' one threshold, the quantile of the whole
   period-return series, decides every flag: a return is flagged exactly
   when it is strictly below it; flags are monotone in the return, a largest
   return is never flagged, and at most ceil(q * (n - 1)) of the n period
   returns are flagged. *)
C9_HistoricalSingleThreshold ==
    (Done("identify_crash_events") /\ args.method = "historical") =>
        LET pr  == period_returns(returns, args.window)
            thr == quantile(pr, Len(pr), Rat(crash_percentile, 100))
            n   == Cardinality(Valid(pr, 1, Len(pr)))
        IN  /\ raised = NoError
            /\ Len(result) = Len(returns)
            /\ \A t \in Positions : result[t] = Lt(pr[t], thr)
            /\ \A t, u \in Positions : (result[t] /\ Le(pr[u], pr[t])) => result[u]
            /\ \A t \in Positions :
                  (\A u \in Positions : ~Lt(pr[t], pr[u])) => ~result[t]
            /\ n = 0 => \A t \in Positions : ~result[t]
            /\ n > 0 => 100 * Cardinality({ t \in Positions : result[t] })
                            <= crash_percentile * (n - 1) + 99

C9_Witness ==
    /\ Done("identify_crash_events")
    /\ args.method = "historical"
    /\ args.window = 2
    /\ crash_percentile = 100
    /\ Cardinality({ t \in Positions : result[t] }) >= 2
    /\ \E t \in Positions : t >= 2 /\ ~result[t]

(* C10: a method other than 'historical' or 'rolling' is rejected with an
   error naming it; no flag series is returned, and the analyzer's
   crash_percentile and drawdown_threshold stay as they were. *)
C10_UnknownMethodRejected ==
    /\ [](Done("identify_crash_events") =>
             IF args.method \in { "historical", "rolling" }
             THEN raised = NoError
             ELSE /\ raised = << "ValueError", "Unknown method: ", args.method >>
                  /\ result = << >>)
    /\ [][(call' = "identify_crash_events" /\ raised' # NoError) =>
             UNCHANGED << crash_percentile, drawdown_threshold >>]_vars

C10_Witness ==
    /\ Done("identify_crash_events")
    /\ args.method = "expanding"
    /\ raised # NoError
    /\ Len(returns) > 1

(* ------------------------------------------------------------------ *)
(* Properties of the series transforms                                 *)
(* ------------------------------------------------------------------ *)
SeriesPositions == 1..Len(series)

NonMissing == Cardinality(Valid(series, 1, Len(series)))

(* the value the low tail is capped at: the (int(lower/100 * n) + 1)-th
   smallest of the n values of the series *)
LowerCap ==
    KthSmallest(series, Len(series), ((winsorize_lower * NonMissing) \div 100) + 1)

(* the value the high tail is capped at: the (n - int((100 - upper)/100 * n))-th
   smallest *)
UpperCap ==
    KthSmallest(series, Len(series),
                NonMissing - (((100 - winsorize_upper) * NonMissing) \div 100))

(* C11: every non-missing value winsorize_series returns lies between the
   lower and the upper winsorization bound of the original values. *)
C11_WinsorizedWithinBounds ==
    (Done("winsorize_series") /\ raised = NoError) =>
        \A t \in 1..Len(result) :
            ~IsNaN(result[t]) => (Le(LowerCap, result[t]) /\ Le(result[t], UpperCap))

(* C12: winsorize_series returns a series over the index of its input,
   missing exactly where the input is missing. *)
C12_WinsorizeKeepsMissingness ==
    Done("winsorize_series") =>
        /\ raised = NoError
        /\ Len(result) = Len(series)
        /\ \A t \in SeriesPositions : IsNaN(result[t]) <=> IsNaN(series[t])

(* the rolling standard deviation at t is 0: the window holds at least two
   and at least window // 2 values, all of them equal *)
ZeroStdAt(t, w) ==
    LET held == { k \in Window(t, w) : ~IsNaN(series[k]) }
    IN  /\ Cardinality(held) >= 2
        /\ Cardinality(held) >= w \div 2
        /\ \A j, k \in held : series[j] = series[k]

(* C16: compute_zscore raises nothing and yields no infinite value; where
   the rolling standard deviation is 0 the z-score is missing. *)
C16_ZeroStdGivesMissing ==
    Done("compute_zscore") =>
        /\ raised = NoError
        /\ Len(result) = Len(series)
        /\ \A t \in SeriesPositions :
              /\ result[t] # PosInf /\ result[t] # NegInf
              /\ ZeroStdAt(t, args.window) => IsNaN(result[t])

C16_Witness ==
    /\ Done("compute_zscore")
    /\ \E t \in SeriesPositions : ZeroStdAt(t, args.window) /\ ~IsNaN(series[t])
    /\ \E t \in SeriesPositions : ~IsNaN(result[t])

(* ------------------------------------------------------------------ *)
(* Properties of the composite index                                   *)
(* ------------------------------------------------------------------ *)
(* the component values present at timestamp t, each named by its table
   and its column *)
PresentAt(t) ==
    { p \in (1..Len(component_dfs)) \X (1..Len(ColumnNames)) :
        /\ p[2] <= Len(component_dfs[p[1]].columns)
        /\ ~IsNaN(component_dfs[p[1]].data[p[2]][t]) }

RECURSIVE Total(_, _)
Total(present, t) ==
    IF present = {} THEN Zero
    ELSE LET p == CHOOSE q \in present : TRUE
         IN  Add(component_dfs[p[1]].data[p[2]][t], Total(present \ {p}, t))

Timestamps == 1..component_dfs[1].index

(* C13: build_composite_index with its default arguments returns, at every
   timestamp, the arithmetic mean of the non-missing component values there,
   and a missing value where no component has a value. *)
C13_CompositeIsMeanOfNonMissing ==
    (Done("build_composite_index") /\ args.winsorize /\ Len(component_dfs) >= 1) =>
        /\ raised = NoError
        /\ Len(result) = component_dfs[1].index
        /\ \A t \in Timestamps :
              LET present == PresentAt(t)
              IN  IF present = {} THEN IsNaN(result[t])
                  ELSE Mul(result[t], Rat(Cardinality(present), 1)) = Total(present, t)

(* ------------------------------------------------------------------ *)
(* Properties of the proxy sets and of build_all_crowding_indices      *)
(* ------------------------------------------------------------------ *)
ResultKeys == { result[k].key : k \in 1..Len(result) }

TableOf(key) == result[CHOOSE k \in 1..Len(result) : result[k].key = key].df

ProxyColumns ==
    Len(TableOf("flow_attention").columns) + Len(TableOf("comovement").columns)
        + Len(TableOf("factor_side").columns)

Warnings == { k \in 1..Len(log) : log[k][1] = "WARNING" }

(* C14: the 'All' composite is computed over exactly the columns of the three
   proxy tables: the composite built last reports as many components as the
   flow-attention, co-movement and factor-side tables have columns. *)
C14_AllOverThreeProxyTables ==
    (Done("build_all_crowding_indices") /\ "crowding_index_all" \in ResultKeys) =>
        log[Len(log) - 1] = Info("Composite index created from "
                                 \o ToString(ProxyColumns) \o " components")

(* C15: build_all_crowding_indices returns, for every aligned table, the four
   crowding indices and the three component tables. *)
C15_AllIndicesAndTablesOutput ==
    Done("build_all_crowding_indices") =>
        /\ raised = NoError
        /\ { "flow_attention", "comovement", "factor_side", "crowding_index_a",
             "crowding_index_b", "crowding_index_c", "crowding_index_all" }
              \subseteq ResultKeys

EtfReturnColumns == SelectSeq(master_data.columns, IsEtfReturn)

(* C17: with fewer than two return columns build_comovement_proxy raises
   nothing, logs a warning and returns a table without columns over the index
   of its input. *)
C17_TooFewInstrumentsGivesEmptyTable ==
    (Done("build_comovement_proxy") /\ Len(EtfReturnColumns) < 2) =>
        /\ raised = NoError
        /\ result = [index |-> master_data.index, columns |-> << >>, data |-> << >>]
        /\ Warnings # {}

C17_Witness ==
    /\ Done("build_comovement_proxy")
    /\ Len(EtfReturnColumns) = 1
    /\ master_data.index > 1
    /\ Len(master_data.columns) > 1
    /\ Warnings # {}

Instruments == { replace(EtfReturnColumns[c], "_ret", "") : c \in 1..Len(EtfReturnColumns) }

LacksVolume(ticker_name) == ~has_column(master_data, ticker_name \o "_vol")

(* C18: when an instrument has a return column and no volume column,
   build_flow_attention_proxy logs a warning. *)
C18_SkippedVolumeIsWarned ==
    (Done("build_flow_attention_proxy") /\ \E ticker_name \in Instruments :
                                                LacksVolume(ticker_name)) =>
        Warnings # {}

(* the flow-attention table of the last call *)
FlowTable ==
    IF call = "build_flow_attention_proxy" THEN result ELSE TableOf("flow_attention")

(* the components of one instrument built from its own columns alone *)
Alone(ticker_name) ==
    LET IsOwn(col) == col = ticker_name \o "_ret" \/ col = ticker_name \o "_vol"
        own        == select(master_data, SelectSeq(master_data.columns, IsOwn))
    IN  build_flow_attention_proxy(own, own, short_window, medium_window).ret

ComponentsKept(ticker_name) ==
    /\ has_column(FlowTable, ticker_name \o "_ret_zscore")
    /\ has_column(FlowTable, ticker_name \o "_crash_freq")
    /\ has_column(FlowTable, ticker_name \o "_vol_zscore") <=> ~LacksVolume(ticker_name)

Unaffected(ticker_name) ==
    LET alone == Alone(ticker_name)
    IN  \A c \in 1..Len(alone.columns) :
            /\ has_column(FlowTable, alone.columns[c])
            /\ column(FlowTable, alone.columns[c]) = alone.data[c]

(* C19: when an instrument lacks its volume column, the flow-attention table
   (of build_flow_attention_proxy and of build_all_crowding_indices) still
   holds the return run-up and crash-frequency components of that instrument,
   holds a volume z-score exactly for the instruments with a volume column,
   and holds for every instrument the components its own columns give. *)
C19_OnlyVolumeComponentSkipped ==
    ( /\ Done("build_flow_attention_proxy") \/ Done("build_all_crowding_indices")
      /\ raised = NoError
      /\ \E ticker_name \in Instruments : LacksVolume(ticker_name) ) =>
        \A ticker_name \in Instruments :
            ComponentsKept(ticker_name) /\ Unaffected(ticker_name)

(* wealth[t], from the drawdown record of t *)
WealthOf(d) == BigSub(d.peak, d.drop)

(* the drawdown is zero up to the end of the rise; from the first period of
   the decline to the end of the series the wealth stays below the peak
   reached at the end of the rise and the drawdown is strictly negative *)
NegativeUntilPeakRegained ==
    Done("compute_drawdown") =>
        /\ Len(result) = Len(sample_returns)
        /\ \A t \in 1..RisePeriods : result[t].drop = << >>
        /\ \A t \in (RisePeriods + 1)..Len(result) :
              /\ BigLt(WealthOf(result[t]), WealthOf(result[RisePeriods]))
              /\ result[t].peak = WealthOf(result[RisePeriods])
              /\ result[t].drop # << >>

(* m^e *)
RECURSIVE BigPow(_, _)
BigPow(m, e) ==
    IF e = 0 THEN << 1 >>
    ELSE IF e = 1 THEN BigOf(m)
    ELSE BigMul(BigPow(m, e \div 2), BigPow(m, e - e \div 2))

(* 1 - 0.98^25 as the fraction LossAtTrough / 100^25 *)
LossAtTrough == BigSub(BigPow(100, DeclinePeriods), BigPow(98, DeclinePeriods))

(* max drawdown = 0.98^25 - 1, which lies between -0.3975 and -0.3965 *)
MaxDrawdownIsDeclineLoss ==
    Done("compute_max_drawdown") =>
        /\ BigMul(result.drop, BigPow(100, DeclinePeriods))
             = BigMul(result.peak, LossAtTrough)
        /\ BigLt(BigMulSmall(result.peak, 3965), BigMulSmall(result.drop, 10000))
        /\ BigLt(BigMulSmall(result.drop, 10000), BigMulSmall(result.peak, 3975))

(* the drawdown threshold, in percent, is at most 100 * (1 - 0.98^25) *)
ThresholdWithinDeclineLoss ==
    BigLe(BigMulSmall(BigPow(100, DeclinePeriods), drawdown_threshold[1]),
          BigMulSmall(LossAtTrough, 100 * drawdown_threshold[2]))

(* the one episode the sample series can give: from the first period of the
   decline to the end of the series, with its trough at the end of the decline *)
OnlySampleEpisode ==
    Len(result) <= 1 /\
    \A e \in 1..Len(result) :
        /\ result[e].start_date = RisePeriods + 1
        /\ result[e].trough_date = DeclineEnd
        /\ result[e].end_date = Len(sample_returns)

(* C20 as stated: on the sample series the drawdown is strictly negative from
   the decline until wealth regains its peak, the max drawdown is 0.98^25 - 1
   (about -0.397), and compute_drawdown_episodes emits an episode if and only
   if the drawdown threshold is at most 39.7 percent. *)
C20_EpisodeIffThresholdAtMost397 ==
    /\ NegativeUntilPeakRegained
    /\ MaxDrawdownIsDeclineLoss
    /\ Done("compute_drawdown_episodes") =>
          (Len(result) > 0 <=> Le(drawdown_threshold, Rat(397, 10)))

(* C20, amended: on the sample series the drawdown is strictly negative from
   the decline until wealth regains its peak (which it does not within the
   series), the max drawdown is 0.98^25 - 1 (about -0.397), and
   compute_drawdown_episodes emits an episode, the one from period 51 to the
   end with its trough at period 75, if and only if the drawdown threshold is
   at most 100 * (1 - 0.98^25) percent, which is about 39.654: it does for
   39.65 and does not for 39.66 or 39.7. *)
C20_EpisodeIffThresholdWithinDeclineLoss ==
    /\ NegativeUntilPeakRegained
    /\ MaxDrawdownIsDeclineLoss
    /\ Done("compute_drawdown_episodes") =>
          /\ OnlySampleEpisode
          /\ Len(result) > 0 <=> ThresholdWithinDeclineLoss
          /\ Len(result) > 0 <=> Le(drawdown_threshold, Rat(3965, 100))

C20_Witness ==
    /\ Done("compute_drawdown_episodes")
    /\ drawdown_threshold = Rat(3965, 100)
    /\ Len(result) = 1
    /\ result[1].duration_days = Len(sample_returns) - RisePeriods

(* ------------------------------------------------------------------ *)
(* Properties of the crash flags of the crash test                     *)
(* ------------------------------------------------------------------ *)
Flagged == { t \in Positions : result[t] }

(* the two injected returns are below every other return of the series *)
InjectedAreMostNegative ==
    /\ Len(returns) = SeriesLength
    /\ returns[FirstCrashAt] = FirstCrash
    /\ returns[SecondCrashAt] = SecondCrash
    /\ \A t \in Positions \ { FirstCrashAt, SecondCrashAt } :
          Lt(returns[FirstCrashAt], returns[t]) /\ Lt(returns[SecondCrashAt], returns[t])

AllDifferent == Cardinality({ returns[t] : t \in Positions }) = Len(returns)

(* position t holds the single most negative return of the series *)
MostNegativeAt(t) == \A u \in Positions \ { t } : Lt(returns[t], returns[u])

(* C21: identify_crash_events with method 'historical' and window 1 on the
   1000 returns of the crash test, the two injected returns being the two
   most negative: both injected positions are flagged, and the number of
   flagged positions is at most crash_percentile percent of the length (1%
   at crash_percentile = 1, that is 10) and exactly that when all returns
   differ.  On every series of two or more returns, a most negative return
   that is the only one of its size is flagged. *)
C21_InjectedCrashesFlagged ==
    (Done("identify_crash_events") /\ args.method = "historical" /\ args.window = 1) =>
        /\ InjectedAreMostNegative =>
              /\ result[FirstCrashAt]
              /\ result[SecondCrashAt]
              /\ 100 * Cardinality(Flagged) <= crash_percentile * SeriesLength
              /\ AllDifferent =>
                    100 * Cardinality(Flagged) = crash_percentile * SeriesLength
        /\ \A t \in Positions : MostNegativeAt(t) /\ Len(returns) >= 2 => result[t]

C21_Witness ==
    /\ Done("identify_crash_events")
    /\ args.method = "historical"
    /\ InjectedAreMostNegative
    /\ AllDifferent
    /\ crash_percentile = 1
    /\ Cardinality(Flagged) = 10
    /\ result[FirstCrashAt]
    /\ result[SecondCrashAt]

(* (1 + returns[lo]) * ... * (1 + returns[hi]) *)
RECURSIVE GrowthOver(_, _)
GrowthOver(lo, hi) ==
    IF hi < lo THEN One ELSE Mul(GrowthOver(lo, hi - 1), Add(One, returns[hi]))

(* the return of the w periods ending at t, missing before w periods passed *)
TrailingReturn(t, w) == IF t < w THEN NaN ELSE Sub(GrowthOver(t - w + 1, t), One)

TrailingReturns(w) == [t \in Positions |-> TrailingReturn(t, w)]

(* C22: for both methods and every window, identify_crash_events returns one
   boolean flag per timestamp of the input; the period return at t is the
   return compounded over the window periods ending at t and exists only
   from the first full window on, its flag is whether it is below the
   threshold of the method, and the first window - 1 positions are flagged
   False. *)
C22_OneFlagPerTimestampFullWindows ==
    (Done("identify_crash_events") /\ args.method \in { "historical", "rolling" }) =>
        LET w  == args.window
            pr == TrailingReturns(w)
            q  == Rat(crash_percentile, 100)
        IN  /\ raised = NoError
            /\ DOMAIN result = Positions
            /\ \A t \in Positions :
                  /\ result[t] \in BOOLEAN
                  /\ t < w => ~result[t]
                  /\ result[t] =
                       Lt(TrailingReturn(t, w),
                          quantile(pr, IF args.method = "rolling" THEN t ELSE Len(returns), q))

C22_Witness ==
    /\ Done("identify_crash_events")
    /\ args.method = "rolling"
    /\ args.window = 2
    /\ Len(returns) >= 3
    /\ ~result[1]
    /\ Lt(returns[1], returns[2])
    /\ \E t \in Positions : result[t]
    /\ \E t \in Positions : t > 2 /\ ~result[t]

(* C23: on an empty return series compute_drawdown_episodes returns an
   episode table without rows and compute_max_drawdown returns a missing
   value; neither raises. *)
C23_EmptySeriesGivesEmptyResults ==
    Len(returns) = 0 =>
        /\ Done("compute_drawdown_episodes") => (result = << >> /\ raised = NoError)
        /\ Done("compute_max_drawdown") => (IsNaN(result) /\ raised = NoError)
        /\ pc = "walk" => episodes = << >>

C23_Witness ==
    /\ Len(returns) = 0
    /\ Done("compute_max_drawdown")
    /\ IsNaN(result)
    /\ raised = NoError

(* the start of the run of negative drawdown that reaches the end of dd *)
OpenRunStart(dd) ==
    CHOOSE s \in 1..Len(dd) :
        /\ \A k \in s..Len(dd) : Lt(dd[k], Zero)
        /\ s > 1 => ~Lt(dd[s - 1], Zero)

(* the first position of s..e where dd is smallest *)
FirstMinimum(dd, s, e) ==
    CHOOSE t \in s..e :
        /\ \A k \in s..e : Le(dd[t], dd[k])
        /\ \A k \in s..(t - 1) : Lt(dd[t], dd[k])

(* C24: when the drawdown is negative at the last index, the walk closes
   the open episode at the last timestamp and emits it exactly when its
   depth reaches drawdown_threshold/100, with trough and depth taken over
   [start, last]; it is then the last row of the table.  A run that never
   recovered is left out only for being too shallow. *)
C24_OpenEpisodeClosedAtLastTimestamp ==
    LET dd == compute_drawdown(returns)
        n  == Len(returns)
    IN  (Done("compute_drawdown_episodes") /\ n > 0 /\ Lt(dd[n], Zero)) =>
            LET s      == OpenRunStart(dd)
                trough == FirstMinimum(dd, s, n)
                deep   == Le(Rat(drawdown_threshold, 100), AbsF(dd[trough]))
                ending == { k \in 1..Len(result) : result[k].end_date = n }
            IN  /\ raised = NoError
                /\ deep => /\ ending = { Len(result) }
                           /\ result[Len(result)].start_date = s
                           /\ result[Len(result)].trough_date = trough
                           /\ result[Len(result)].depth_pct = Mul(dd[trough], Hundred)
                           /\ result[Len(result)].duration_days = n - s + 1
                /\ ~deep => ending = {}

C24_Witness ==
    /\ Done("compute_drawdown_episodes")
    /\ Len(result) >= 2
    /\ result[Len(result)].end_date = Len(returns)
    /\ Lt(compute_drawdown(returns)[Len(returns)], Zero)
    /\ \A t \in Positions : Lt(Rat(-1, 1), returns[t])

(* C25: the trough of every emitted episode is the first position of
   [start, end] where the drawdown is smallest: start <= trough <= end, no
   drawdown of [start, end] is below the one at the trough, and every
   drawdown of [start, trough) is above it. *)
C25_TroughIsFirstMinimum ==
    Done("compute_drawdown_episodes") =>
        LET dd == compute_drawdown(returns)
        IN  \A k \in 1..Len(result) :
              LET s      == result[k].start_date
                  e      == result[k].end_date
                  trough == result[k].trough_date
              IN  /\ s <= trough
                  /\ trough <= e
                  /\ \A j \in s..e : Le(dd[trough], dd[j])
                  /\ \A j \in s..(trough - 1) : Lt(dd[trough], dd[j])

C25_Witness ==
    /\ Done("compute_drawdown_episodes")
    /\ \E k \in 1..Len(result) :
          /\ result[k].start_date < result[k].trough_date
          /\ \E j \in (result[k].trough_date + 1)..result[k].end_date :
                compute_drawdown(returns)[j] = compute_drawdown(returns)[result[k].trough_date]

(* duration_days of the first k rows of the episode table, added up *)
RECURSIVE TotalDuration(_)
TotalDuration(k) == IF k = 0 THEN 0 ELSE TotalDuration(k - 1) + result[k].duration_days

(* C26: the duration of every emitted episode is end - start + 1 in
   positions, so at least 1; an episode that ends before the last index
   ends just before the first index after its start whose drawdown is >= 0,
   one that ends at the last index has negative drawdown up to there; the
   durations add up to at most the number of indices with negative
   drawdown. *)
C26_DurationCountsEpisodePositions ==
    Done("compute_drawdown_episodes") =>
        LET dd == compute_drawdown(returns)
        IN  /\ \A k \in 1..Len(result) :
                  LET s == result[k].start_date
                      e == result[k].end_date
                  IN  /\ result[k].duration_days = e - s + 1
                      /\ result[k].duration_days >= 1
                      /\ \A j \in s..e : ~Ge(dd[j], Zero)
                      /\ e < Len(returns) => Ge(dd[e + 1], Zero)
            /\ TotalDuration(Len(result))
                  <= Cardinality({ t \in Positions : Lt(dd[t], Zero) })

C26_Witness ==
    /\ Done("compute_drawdown_episodes")
    /\ \E k \in 1..Len(result) :
          /\ result[k].duration_days >= 2
          /\ result[k].end_date < Len(returns)
    /\ TotalDuration(Len(result))
          = Cardinality({ t \in Positions : Lt(compute_drawdown(returns)[t], Zero) })

(* ------------------------------------------------------------------ *)
(* Properties of the rolling z-score                                   *)
(* ------------------------------------------------------------------ *)
(* the positions of the window of w periods ending at t that hold a value *)
Held(t, w) == { k \in Window(t, w) : ~IsNaN(series[k]) }

(* the values f[k], k in S, added up *)
RECURSIVE SumOver(_, _)
SumOver(S, f) ==
    IF S = {} THEN Zero
    ELSE LET k == CHOOSE k \in S : TRUE
         IN  Add(f[k], SumOver(S \ { k }, f))

MeanOf(S) == Div(SumOver(S, series), Rat(Cardinality(S), 1))

(* the sample variance of the values at S, for two or more of them *)
VarianceOf(S) ==
    LET mean == MeanOf(S)
        dev2 == [k \in S |-> Mul(Sub(series[k], mean), Sub(series[k], mean))]
    IN  Div(SumOver(S, dev2), Rat(Cardinality(S) - 1, 1))

(* (x[t] - mean) / std over the held values of the window, as sign(z) * z * z;
   missing where x[t] is missing or the deviation is undefined or 0 *)
ZscoreAt(t, w) ==
    LET held == Held(t, w)
        dev  == Sub(series[t], MeanOf(held))
    IN  IF IsNaN(series[t]) \/ Cardinality(held) < 2 THEN NaN
        ELSE IF VarianceOf(held) = Zero THEN NaN
        ELSE Mul(Rat(Sign(dev[1]), 1), Div(Mul(dev, dev), VarianceOf(held)))

(* C27: compute_zscore(series, window) with the default min_periods returns
   a series of the length of the input whose value at t is
   (x[t] - mean) / std over the values held by the window ending at t, and
   is missing at every t whose window holds fewer than window // 2 values. *)
C27_ZscoreOverTrailingWindow ==
    Done("compute_zscore") =>
        /\ raised = NoError
        /\ Len(result) = Len(series)
        /\ \A t \in SeriesPositions :
              IF Cardinality(Held(t, args.window)) < args.window \div 2
              THEN IsNaN(result[t])
              ELSE result[t] = ZscoreAt(t, args.window)

C27_Witness ==
    /\ Done("compute_zscore")
    /\ args.window = 6
    /\ \E t \in SeriesPositions :
          /\ Cardinality(Held(t, 6)) = 2
          /\ ~IsNaN(ZscoreAt(t, 6))
          /\ IsNaN(result[t])
    /\ \E t \in SeriesPositions : ~IsNaN(result[t]) /\ Lt(result[t], Zero)

(* ------------------------------------------------------------------ *)
(* Properties of the co-movement proxy                                 *)
(* ------------------------------------------------------------------ *)
(* the name of the instrument of the c-th return column *)
InstrumentAt(c) == replace(EtfReturnColumns[c], "_ret", "")

(* the unordered pairs of return columns, the earlier column first *)
UnorderedPairs ==
    { q \in (1..Len(EtfReturnColumns)) \X (1..Len(EtfReturnColumns)) : q[1] < q[2] }

PairColumn(q) == "corr_" \o InstrumentAt(q[1]) \o "_" \o InstrumentAt(q[2])

(* the columns of the returned table that are not avg_corr *)
CorrelationColumns == { c \in 1..Len(result.columns) : result.columns[c] # "avg_corr" }

(* C28: for two or more return columns build_comovement_proxy returns one
   rolling-correlation column for every unordered pair of instruments, named
   after both, n(n-1)/2 columns with different names in all, and after them
   avg_corr, which at each timestamp is the arithmetic mean of the
   correlations present there (missing when none is) and lies in [-1, 1]. *)
C28_OneColumnPerPairAndAverage ==
    (Done("build_comovement_proxy") /\ Len(EtfReturnColumns) >= 2) =>
        LET n == Len(EtfReturnColumns)
        IN  /\ raised = NoError
            /\ result.index = master_data.index
            /\ Len(result.columns) = (n * (n - 1)) \div 2 + 1
            /\ Cardinality({ result.columns[c] : c \in 1..Len(result.columns) })
                  = Len(result.columns)
            /\ result.columns[Len(result.columns)] = "avg_corr"
            /\ { result.columns[c] : c \in CorrelationColumns }
                  = { PairColumn(q) : q \in UnorderedPairs }
            /\ \A q \in UnorderedPairs :
                  column(result, PairColumn(q))
                    = rolling_corr(column(master_data, EtfReturnColumns[q[1]]),
                                   column(master_data, EtfReturnColumns[q[2]]),
                                   medium_window)
            /\ \A t \in 1..result.index :
                  LET present == { c \in CorrelationColumns : ~IsNaN(result.data[c][t]) }
                      cells   == [c \in present |-> result.data[c][t]]
                      avg     == column(result, "avg_corr")[t]
                  IN  /\ \A c \in present : cells[c] \in { Rat(-1, 1), Rat(1, 1) }
                      /\ IF present = {} THEN IsNaN(avg)
                         ELSE /\ avg = Div(SumOver(present, cells),
                                           Rat(Cardinality(present), 1))
                              /\ Le(Rat(-1, 1), avg)
                              /\ Le(avg, Rat(1, 1))

C28_Witness ==
    /\ Done("build_comovement_proxy")
    /\ Len(EtfReturnColumns) = 3
    /\ Len(result.columns) = 4
    /\ \E t \in 1..result.index : column(result, "avg_corr")[t] = Rat(-1, 3)
    /\ IsNaN(column(result, "avg_corr")[1])

(* ------------------------------------------------------------------ *)
(* Properties of the composite index: order of the components          *)
(* ------------------------------------------------------------------ *)
(* the orders of n positions *)
Orders(n) ==
    { p \in [1..n -> 1..n] : \A a, b \in 1..n : a # b => p[a] # p[b] }

(* df with its columns in the order p *)
permute_columns(df, p) ==
    [index   |-> df.index,
     columns |-> [c \in 1..Len(df.columns) |-> df.columns[p[c]]],
     data    |-> [c \in 1..Len(df.columns) |-> df.data[p[c]]]]

ColumnOrders(df) == { permute_columns(df, p) : p \in Orders(Len(df.columns)) }

(* the lists of tables got from dfs by reordering the tables and, inside each
   table, the columns *)
Reorderings(dfs) ==
    LET n      == Len(dfs)
        tables == UNION { ColumnOrders(dfs[k]) : k \in 1..n }
    IN  UNION { { r \in [1..n -> tables] :
                    \A k \in 1..n : r[k] \in ColumnOrders(dfs[p[k]]) } :
                p \in Orders(n) }

(* C29: build_composite_index does not depend on the order of its component
   tables nor on the order of the columns inside them: called on any
   reordering it returns the same composite at every timestamp, and raises
   the same exception. *)
C29_CompositeInsensitiveToOrder ==
    Done("build_composite_index") =>
        \A r \in Reorderings(component_dfs) :
            LET out == build_composite_index(r, args.winsorize, winsorize_lower,
                                             winsorize_upper)
            IN  out.ret = result /\ out.exc = raised

C29_Witness ==
    /\ Done("build_composite_index")
    /\ raised = NoError
    /\ args.winsorize
    /\ Len(component_dfs) = 2
    /\ Len(component_dfs[1].columns) = 2
    /\ Len(component_dfs[2].columns) = 1
    /\ \E r \in Reorderings(component_dfs) :
          /\ concat(r).ret.data[1] # concat(component_dfs).ret.data[1]
          /\ concat(r).ret.data[3] # concat(component_dfs).ret.data[3]
    /\ \E t \in 1..Len(result) : ~IsNaN(result[t]) /\ result[t] # Zero
    /\ \E t \in 1..Len(result) :
          /\ IsNaN(component_dfs[1].data[1][t])
          /\ ~IsNaN(component_dfs[1].data[2][t])
          /\ ~IsNaN(component_dfs[2].data[1][t])
          /\ component_dfs[1].data[2][t] # component_dfs[2].data[1][t]

(* ------------------------------------------------------------------ *)
(* Properties of the calls taken together                              *)
(* ------------------------------------------------------------------ *)
(* the loop of compute_drawdown_episodes from position k on, with the open
   episode starting at start (0 for none) and the episodes eps found so far *)
RECURSIVE episodes_from(_, _, _, _, _, _)
episodes_from(drawdown, cum_returns, threshold, k, start, eps) ==
    IF k > Len(drawdown)
    THEN IF start # 0 /\ ExceedsThreshold(drawdown, start, Len(drawdown), threshold)
         THEN Append(eps, Episode(drawdown, cum_returns, start, Len(drawdown)))
         ELSE eps
    ELSE IF in_drawdown(drawdown)[k] /\ start = 0
    THEN episodes_from(drawdown, cum_returns, threshold, k + 1, k, eps)
    ELSE IF ~in_drawdown(drawdown)[k] /\ start # 0
    THEN episodes_from(drawdown, cum_returns, threshold, k + 1, 0,
                       IF ExceedsThreshold(drawdown, start, k - 1, threshold)
                       THEN Append(eps, Episode(drawdown, cum_returns, start, k - 1))
                       ELSE eps)
    ELSE episodes_from(drawdown, cum_returns, threshold, k + 1, start, eps)

Returned(value) == [ret |-> value, exc |-> NoError]

(* what the call name with the arguments a gives for the inputs and the
   configuration fields as they are now *)
Answer(name, a) ==
    CASE name = "compute_cumulative_returns" ->
            Returned(compute_cumulative_returns(returns))
      [] name = "compute_running_max" ->
            Returned(compute_running_max(compute_cumulative_returns(returns)))
      [] name = "compute_drawdown" -> Returned(compute_drawdown(returns))
      [] name = "compute_max_drawdown" -> Returned(compute_max_drawdown(returns))
      [] name = "compute_drawdown_episodes" ->
            Returned(episodes_from(compute_drawdown(returns),
                                   compute_cumulative_returns(returns),
                                   drawdown_threshold, 1, 0, << >>))
      [] name = "identify_crash_events" ->
            LET out == identify_crash_events(returns, a.window, a.method,
                                             crash_percentile)
            IN  [ret |-> out.ret, exc |-> out.exc]
      [] name = "compute_zscore" -> Returned(compute_zscore(series, a.window))
      [] name = "winsorize_series" ->
            LET out == winsorize_series(series, winsorize_lower, winsorize_upper)
            IN  [ret |-> out.ret, exc |-> out.exc]
      [] name = "build_flow_attention_proxy" ->
            Returned(build_flow_attention_proxy(master_data, master_data,
                                                short_window, medium_window).ret)
      [] name = "build_comovement_proxy" ->
            Returned(build_comovement_proxy(master_data, medium_window).ret)
      [] name = "build_factor_side_proxy" ->
            LET IsFactor(col) == ~IsEtfReturn(col) /\ ~IsEtfVolume(col)
            IN  Returned(build_factor_side_proxy(
                             select(master_data,
                                    SelectSeq(master_data.columns, IsFactor)),
                             short_window, medium_window).ret)
      [] name = "build_composite_index" ->
            LET out == build_composite_index(component_dfs, a.winsorize,
                                             winsorize_lower, winsorize_upper)
            IN  [ret |-> out.ret, exc |-> out.exc]

(* C30: no step of a core operation changes the series or tables it was
   given nor a configuration field of the analyzer or of the builder, and a
   call that ends returns (or raises) what its operation gives for those
   inputs and fields alone, whatever calls came before: a repeated call on
   the same input gives the same result. *)
C30_CallsLeaveInputsAndRepeat ==
    [][/\ UNCHANGED << analyzer_fields, builder_fields, returns, builder_inputs >>
       /\ pc' = "ready" =>
             /\ result' = Answer(call', args').ret
             /\ raised' = Answer(call', args').exc]_vars

C30_Witness ==
    /\ Done("compute_drawdown_episodes")
    /\ Len(returns) >= 2
    /\ Len(result) >= 1
    /\ log # << >>
    /\ Len(component_dfs) = 2
    /\ Len(master_data.columns) > 0

====
